---- MODULE Spec2Model ----
(***************************************************************************)
(* awsri: reserved-instance and savings-plan cost calculator.              *)
(*                                                                         *)
(* The module models the commands of the package (rds, elasticache, total, *)
(* compute-savings-plans ec2 / fargate) as sequential programs whose       *)
(* external calls (pricing catalog, offering queries) answer               *)
(* nondeterministically, and the pure helpers (region translation, price   *)
(* document parsing, cost normalisation) as operators.                     *)
(*                                                                         *)
(* float64 values are modelled as exact extended rationals <<n, d>> with   *)
(* d >= 0 in lowest terms; d = 0 encodes the IEEE specials: <<1, 0>> is    *)
(* +Inf, <<-1, 0>> is -Inf and <<0, 0>> is NaN.                            *)
(***************************************************************************)
EXTENDS Integers, Sequences, FiniteSets, TLC

VARIABLES
    cmd,      \* the command or helper being run
    pc,       \* position inside the command
    opts,     \* the command's options (flags), or the helper's argument
    local,    \* local variables of the running function
    table,    \* rows appended to the table renderer, in order
    stdout,   \* lines written to standard output, in order
    calls,    \* external calls issued so far, in order
    err       \* the error Run returned ("" while none)

vars == <<cmd, pc, opts, local, table, stdout, calls, err>>

(***************************************************************************)
(* Bounds                                                                  *)
(***************************************************************************)
\* longest list of offerings one offering query returns
MaxOfferings == 2

(***************************************************************************)
(* Sequences and strings                                                   *)
(***************************************************************************)
Range(s) == {s[i] : i \in DOMAIN s}

\* all sequences over S of length 0..n
RECURSIVE SeqsUpTo(_, _)
SeqsUpTo(S, n) ==
    IF n = 0 THEN {<<>>}
    ELSE LET shorter == SeqsUpTo(S, n - 1)
         IN  shorter \cup {Append(s, x) : s \in {t \in shorter : Len(t) = n - 1}, x \in S}

\* all orders in which the elements of S can be enumerated
RECURSIVE Orders(_)
Orders(S) ==
    IF S = {} THEN {<<>>}
    ELSE UNION {{<<x>> \o o : o \in Orders(S \ {x})} : x \in S}

\* strings.Contains
Contains(s, sub) ==
    \E i \in 1..(Len(s) - Len(sub) + 1) : SubSeq(s, i, i + Len(sub) - 1) = sub

\* strings.HasPrefix
HasPrefix(s, p) == Len(s) >= Len(p) /\ SubSeq(s, 1, Len(p)) = p

\* strings.TrimPrefix
TrimPrefix(s, prefix) ==
    IF HasPrefix(s, prefix) THEN SubSeq(s, Len(prefix) + 1, Len(s)) ELSE s

\* strings.Join
RECURSIVE Join(_, _)
Join(elems, sep) ==
    IF Len(elems) = 0 THEN ""
    ELSE IF Len(elems) = 1 THEN elems[1]
    ELSE elems[1] \o sep \o Join(Tail(elems), sep)

\* strings.Split on a one-character separator
RECURSIVE Split(_, _)
Split(s, sep) ==
    LET at == {i \in 1..Len(s) : SubSeq(s, i, i) = sep}
    IN  IF at = {} THEN <<s>>
        ELSE LET i == CHOOSE i \in at : \A j \in at : i <= j
             IN  <<SubSeq(s, 1, i - 1)>> \o Split(SubSeq(s, i + 1, Len(s)), sep)

UpperToLower ==
    [c \in {"A","B","C","D","E","F","G","H","I","J","K","L","M",
            "N","O","P","Q","R","S","T","U","V","W","X","Y","Z"} |->
        CASE c = "A" -> "a" [] c = "B" -> "b" [] c = "C" -> "c" [] c = "D" -> "d"
          [] c = "E" -> "e" [] c = "F" -> "f" [] c = "G" -> "g" [] c = "H" -> "h"
          [] c = "I" -> "i" [] c = "J" -> "j" [] c = "K" -> "k" [] c = "L" -> "l"
          [] c = "M" -> "m" [] c = "N" -> "n" [] c = "O" -> "o" [] c = "P" -> "p"
          [] c = "Q" -> "q" [] c = "R" -> "r" [] c = "S" -> "s" [] c = "T" -> "t"
          [] c = "U" -> "u" [] c = "V" -> "v" [] c = "W" -> "w" [] c = "X" -> "x"
          [] c = "Y" -> "y" [] c = "Z" -> "z"]

\* strings.ToLower (ASCII letters)
RECURSIVE ToLower(_)
ToLower(s) ==
    IF Len(s) = 0 THEN s
    ELSE LET c == SubSeq(s, 1, 1)
         IN  (IF c \in DOMAIN UpperToLower THEN UpperToLower[c] ELSE c)
                 \o ToLower(SubSeq(s, 2, Len(s)))

\* strings.ToUpper
RECURSIVE ToUpper(_)
ToUpper(s) ==
    IF Len(s) = 0 THEN s
    ELSE LET c  == SubSeq(s, 1, 1)
             up == {u \in DOMAIN UpperToLower : UpperToLower[u] = c}
         IN  (IF up # {} THEN CHOOSE u \in up : TRUE ELSE c) \o ToUpper(SubSeq(s, 2, Len(s)))

(***************************************************************************)
(* float64 as extended rationals                                           *)
(***************************************************************************)
Abs(n) == IF n < 0 THEN -n ELSE n
Sign(n) == IF n < 0 THEN -1 ELSE IF n > 0 THEN 1 ELSE 0

RECURSIVE GCD(_, _)
GCD(a, b) == IF b = 0 THEN a ELSE GCD(b, a % b)

\* lowest terms, non-negative denominator
Norm(n, d) ==
    IF d = 0 THEN <<Sign(n), 0>>
    ELSE LET g == GCD(Abs(n), Abs(d))
         IN  <<(Sign(d) * n) \div g, Abs(d) \div g>>

R(n) == <<n, 1>>
Frac(n, d) == Norm(n, d)
NaN == <<0, 0>>
PosInf == <<1, 0>>
NegInf == <<-1, 0>>
IsNaN(x) == x = NaN
IsFinite(x) == x[2] # 0

FMul(x, y) == Norm(x[1] * y[1], x[2] * y[2])
FAdd(x, y) ==
    IF x[2] = 0 /\ y[2] = 0
    THEN (IF x = y THEN x ELSE NaN)
    ELSE Norm(x[1] * y[2] + y[1] * x[2], x[2] * y[2])
FNeg(x) == <<-x[1], x[2]>>
FSub(x, y) == FAdd(x, FNeg(y))
\* x / y; a zero divisor gives +-Inf, or NaN for 0/0 (zeros are +0)
FDiv(x, y) ==
    IF IsNaN(x) \/ IsNaN(y) THEN NaN
    ELSE IF y[1] = 0 THEN <<Sign(x[1]), 0>>
    ELSE IF y[2] = 0 THEN (IF x[2] = 0 THEN NaN ELSE <<0, 1>>)
    ELSE Norm(x[1] * y[2] * Sign(y[1]), x[2] * Abs(y[1]))
FLess(x, y) ==
    /\ ~IsNaN(x) /\ ~IsNaN(y)
    /\ IF x[2] = 0 /\ y[2] = 0 THEN x[1] < y[1]
       ELSE IF x[2] = 0 THEN x[1] < 0
       ELSE IF y[2] = 0 THEN y[1] > 0
       ELSE x[1] * y[2] < y[1] * x[2]

\* the value rounded to k decimals, as an integer count of 10^-k (half away
\* from zero), as fmt's %.kf prints a finite value
RECURSIVE Pow10(_)
Pow10(k) == IF k = 0 THEN 1 ELSE 10 * Pow10(k - 1)
RoundTo(x, k) ==
    LET num == Abs(x[1]) * Pow10(k) * 2 + x[2]
        q   == num \div (2 * x[2])
    IN  Sign(x[1]) * q

DigitVal ==
    ("0" :> 0) @@ ("1" :> 1) @@ ("2" :> 2) @@ ("3" :> 3) @@ ("4" :> 4) @@
    ("5" :> 5) @@ ("6" :> 6) @@ ("7" :> 7) @@ ("8" :> 8) @@ ("9" :> 9)

AllDigits(s) == \A i \in 1..Len(s) : SubSeq(s, i, i) \in DOMAIN DigitVal

RECURSIVE DigitsVal(_)
DigitsVal(s) ==
    IF Len(s) = 0 THEN 0
    ELSE DigitsVal(SubSeq(s, 1, Len(s) - 1)) * 10 + DigitVal[SubSeq(s, Len(s), Len(s))]

\* s without its trailing "0" characters (they do not change a fraction)
RECURSIVE TrimRightZeros(_)
TrimRightZeros(s) ==
    IF Len(s) > 0 /\ SubSeq(s, Len(s), Len(s)) = "0"
    THEN TrimRightZeros(SubSeq(s, 1, Len(s) - 1)) ELSE s

\* strconv.ParseFloat(s, 64) on plain decimal notation: [ok, v]; a syntax
\* error returns value 0 and ok = FALSE
ParseFloat(s) ==
    LET signed == HasPrefix(s, "-") \/ HasPrefix(s, "+")
        body   == IF signed THEN SubSeq(s, 2, Len(s)) ELSE s
        dots   == {i \in 1..Len(body) : SubSeq(body, i, i) = "."}
        dot    == IF dots = {} THEN Len(body) + 1 ELSE CHOOSE i \in dots : TRUE
        ip     == SubSeq(body, 1, dot - 1)
        fpAll  == SubSeq(body, dot + 1, Len(body))
        fp     == TrimRightZeros(fpAll)
        sgn    == IF HasPrefix(s, "-") THEN -1 ELSE 1
    IN  IF Cardinality(dots) > 1 \/ ~AllDigits(ip) \/ ~AllDigits(fpAll)
           \/ Len(ip) + Len(fpAll) = 0
        THEN [ok |-> FALSE, v |-> R(0)]
        ELSE [ok |-> TRUE,
              v  |-> Norm(sgn * (DigitsVal(ip) * Pow10(Len(fp)) + DigitsVal(fp)),
                          Pow10(Len(fp)))]

\* strconv.Atoi: [ok, v]
Atoi(s) ==
    LET signed == HasPrefix(s, "-") \/ HasPrefix(s, "+")
        body   == IF signed THEN SubSeq(s, 2, Len(s)) ELSE s
    IN  IF Len(body) = 0 \/ ~AllDigits(body) THEN [ok |-> FALSE, v |-> 0]
        ELSE [ok |-> TRUE, v |-> (IF HasPrefix(s, "-") THEN -1 ELSE 1) * DigitsVal(body)]

\* strconv.ParseBool: [ok, v]
ParseBool(s) ==
    IF s \in {"1", "t", "T", "TRUE", "true", "True"} THEN [ok |-> TRUE, v |-> TRUE]
    ELSE IF s \in {"0", "f", "F", "FALSE", "false", "False"} THEN [ok |-> TRUE, v |-> FALSE]
    ELSE [ok |-> FALSE, v |-> FALSE]

(***************************************************************************)
(* Region / location translation                                           *)
(***************************************************************************)
locationMap ==
       ("Asia Pacific (Tokyo)" :> "ap-northeast-1")
    @@ ("Asia Pacific (Seoul)" :> "ap-northeast-2")
    @@ ("Asia Pacific (Osaka)" :> "ap-northeast-3")
    @@ ("Asia Pacific (Mumbai)" :> "ap-south-1")
    @@ ("Asia Pacific (Singapore)" :> "ap-southeast-1")
    @@ ("Asia Pacific (Sydney)" :> "ap-southeast-2")
    @@ ("Asia Pacific (Jakarta)" :> "ap-southeast-3")
    @@ ("Asia Pacific (Melbourne)" :> "ap-southeast-4")
    @@ ("Canada (Central)" :> "ca-central-1")
    @@ ("EU (Frankfurt)" :> "eu-central-1")
    @@ ("EU (Ireland)" :> "eu-west-1")
    @@ ("EU (London)" :> "eu-west-2")
    @@ ("EU (Paris)" :> "eu-west-3")
    @@ ("EU (Milan)" :> "eu-south-1")
    @@ ("EU (Stockholm)" :> "eu-north-1")
    @@ ("EU (Spain)" :> "eu-south-2")
    @@ ("EU (Zurich)" :> "eu-central-2")
    @@ ("Middle East (Bahrain)" :> "me-south-1")
    @@ ("Middle East (UAE)" :> "me-central-1")
    @@ ("South America (São Paulo)" :> "sa-east-1")
    @@ ("US East (N. Virginia)" :> "us-east-1")
    @@ ("US East (Ohio)" :> "us-east-2")
    @@ ("US West (N. California)" :> "us-west-1")
    @@ ("US West (Oregon)" :> "us-west-2")
    @@ ("Africa (Cape Town)" :> "af-south-1")
    @@ ("Asia Pacific (Hong Kong)" :> "ap-east-1")
    @@ ("China (Beijing)" :> "cn-north-1")
    @@ ("China (Ningxia)" :> "cn-northwest-1")
    @@ ("Israel (Tel Aviv)" :> "il-central-1")

regionMap ==
       ("ap-northeast-1" :> "Asia Pacific (Tokyo)")
    @@ ("ap-northeast-2" :> "Asia Pacific (Seoul)")
    @@ ("ap-northeast-3" :> "Asia Pacific (Osaka)")
    @@ ("ap-south-1" :> "Asia Pacific (Mumbai)")
    @@ ("ap-southeast-1" :> "Asia Pacific (Singapore)")
    @@ ("ap-southeast-2" :> "Asia Pacific (Sydney)")
    @@ ("ap-southeast-3" :> "Asia Pacific (Jakarta)")
    @@ ("ap-southeast-4" :> "Asia Pacific (Melbourne)")
    @@ ("ca-central-1" :> "Canada (Central)")
    @@ ("eu-central-1" :> "EU (Frankfurt)")
    @@ ("eu-west-1" :> "EU (Ireland)")
    @@ ("eu-west-2" :> "EU (London)")
    @@ ("eu-west-3" :> "EU (Paris)")
    @@ ("eu-south-1" :> "EU (Milan)")
    @@ ("eu-north-1" :> "EU (Stockholm)")
    @@ ("eu-south-2" :> "EU (Spain)")
    @@ ("eu-central-2" :> "EU (Zurich)")
    @@ ("me-south-1" :> "Middle East (Bahrain)")
    @@ ("me-central-1" :> "Middle East (UAE)")
    @@ ("sa-east-1" :> "South America (São Paulo)")
    @@ ("us-east-1" :> "US East (N. Virginia)")
    @@ ("us-east-2" :> "US East (Ohio)")
    @@ ("us-west-1" :> "US West (N. California)")
    @@ ("us-west-2" :> "US West (Oregon)")
    @@ ("af-south-1" :> "Africa (Cape Town)")
    @@ ("ap-east-1" :> "Asia Pacific (Hong Kong)")
    @@ ("cn-north-1" :> "China (Beijing)")
    @@ ("cn-northwest-1" :> "China (Ningxia)")
    @@ ("il-central-1" :> "Israel (Tel Aviv)")

\* a translation table with two codes exchanged
mapLocationToRegion_Swapped(location) ==
    IF location = "EU (Spain)" THEN "eu-central-2"
    ELSE IF location = "EU (Zurich)" THEN "eu-south-2"
    ELSE IF location \in DOMAIN locationMap THEN locationMap[location] ELSE ""

\* mapLocationToRegion maps location name to region code
mapLocationToRegion(location) ==
    IF location \in DOMAIN locationMap THEN locationMap[location] ELSE ""

\* an unmapped region gives the empty location
mapRegionToLocation_Empty(region) ==
    IF region \in DOMAIN regionMap THEN regionMap[region] ELSE ""

\* mapRegionToLocation maps region code to location name for the Pricing API
mapRegionToLocation(region) ==
    IF region \in DOMAIN regionMap THEN regionMap[region] ELSE region

(***************************************************************************)
(* Cost normalisation (table.go)                                           *)
(***************************************************************************)
OfferingTypes == <<"On-Demand", "No Upfront", "Partial Upfront", "All Upfront">>
Durations == <<1, 3>>

DurationToMonths(years) == years * 12

\* a variant that leaves the cost monthly
CalculateEffectiveMonthly_PerMonth(fixedPrice, monthlyRecurring, durationMonths) ==
    FAdd(FDiv(fixedPrice, R(durationMonths)), monthlyRecurring)

\* despite the name, returns the effective yearly cost
CalculateEffectiveMonthly(fixedPrice, monthlyRecurring, durationMonths) ==
    LET monthlyUpfront == FDiv(fixedPrice, R(durationMonths))
        monthlyTotal   == FAdd(monthlyUpfront, monthlyRecurring)
    IN  FMul(monthlyTotal, R(12))

\* the baseline taken in the unit it is passed in, not converted to a year
CalculateSavings_Unconverted(onDemandPrice, effectiveYearly) ==
    LET savings == FSub(onDemandPrice, effectiveYearly)
    IN  <<savings, FMul(FDiv(savings, onDemandPrice), R(100))>>

\* <<yearly savings, savings percent>> from the monthly on-demand price and
\* the effective yearly cost
CalculateSavings(onDemandPrice, effectiveYearly) ==
    LET yearlyOnDemand == FMul(onDemandPrice, R(12))
        yearlySavings  == FSub(yearlyOnDemand, effectiveYearly)
        savingsPercent == FMul(FDiv(yearlySavings, yearlyOnDemand), R(100))
    IN  <<yearlySavings, savingsPercent>>

(***************************************************************************)
(* Price documents                                                         *)
(*                                                                         *)
(* A price list entry is a JSON text.  valid says whether it unmarshals;   *)
(* hasTerms / hasOnDemand whether terms and terms.OnDemand are objects;    *)
(* onDemand maps term keys to terms; a term has priceDimensions (hasDims)  *)
(* mapping keys to dimensions; a dimension has a unit, and a pricePerUnit  *)
(* object (hasPPU) with a USD string (hasUSD).  attrs are the              *)
(* product.attributes the commands read.                                   *)
(*                                                                         *)
(* Go iterates a map in an unspecified order, so the extraction functions  *)
(* take the order of one iteration as the parameter order: order.terms is  *)
(* the order of the term keys, order.dims[k] the order of the dimension    *)
(* keys of term k.                                                         *)
(***************************************************************************)
MaxTerms == 2
MaxDims == 2

Dim(unit, usd) == [hasPPU |-> TRUE, hasUSD |-> TRUE, usd |-> usd, unit |-> unit]
DimNoUSD == [hasPPU |-> TRUE, hasUSD |-> FALSE, usd |-> "", unit |-> "Hrs"]
DimNoPPU == [hasPPU |-> FALSE, hasUSD |-> FALSE, usd |-> "", unit |-> "Hrs"]

Term(dims) == [hasDims |-> TRUE, dims |-> dims]
TermNoDims == [hasDims |-> FALSE, dims |-> <<>>]

NoAttrs == [usagetype |-> "", processorArchitecture |-> ""]
Doc(onDemand, attrs) ==
    [valid |-> TRUE, hasTerms |-> TRUE, hasOnDemand |-> TRUE,
     onDemand |-> onDemand, attrs |-> attrs]
DocInvalid == [Doc(<<>>, NoAttrs) EXCEPT !.valid = FALSE, !.hasTerms = FALSE, !.hasOnDemand = FALSE]
DocNoTerms == [Doc(<<>>, NoAttrs) EXCEPT !.hasTerms = FALSE, !.hasOnDemand = FALSE]
DocNoOnDemand == [Doc(<<>>, NoAttrs) EXCEPT !.hasOnDemand = FALSE]

\* a document with one term and one dimension
SimpleDoc(unit, usd, attrs) == Doc(<<Term(<<Dim(unit, usd)>>)>>, attrs)

\* the iteration orders of a document's maps
IterOrders(doc) ==
    LET K   == DOMAIN doc.onDemand
        All == UNION {Orders(DOMAIN doc.onDemand[k].dims) : k \in K}
    IN  {[terms |-> t, dims |-> d] :
            t \in Orders(K),
            d \in {f \in [K -> All] : \A k \in K : f[k] \in Orders(DOMAIN doc.onDemand[k].dims)}}

Ok(v) == [kind |-> "ok", v |-> v, msg |-> ""]
Error(msg) == [kind |-> "err", v |-> R(0), msg |-> msg]
Panic == [kind |-> "panic", v |-> R(0), msg |-> "interface conversion"]

\* the unit denotes seconds
IsPerSecond(unit) == Contains(ToLower(unit), "second") \/ Contains(ToLower(unit), "sec")

\* a variant that converts a price per second twice
HourlyPrice_Twice(unit, price) ==
    IF ~price.ok THEN [kind |-> "skip", v |-> R(0), msg |-> ""]
    ELSE IF IsPerSecond(unit) THEN Ok(FMul(FMul(price.v, R(3600)), R(3600)))
    ELSE Ok(price.v)

\* the parsed price per hour: a price per second is multiplied by 3600, a
\* price that did not parse is skipped
HourlyPrice(unit, price) ==
    IF ~price.ok THEN [kind |-> "skip", v |-> R(0), msg |-> ""]
    ELSE IF IsPerSecond(unit) THEN Ok(FMul(price.v, R(3600)))
    ELSE Ok(price.v)

\* one price dimension of extractOnDemandPriceFromResult: the hourly price,
\* or "skip" for continue
OnDemandDimPrice(dim) ==
    IF ~dim.hasPPU THEN [kind |-> "skip", v |-> R(0), msg |-> ""]
    ELSE IF ~dim.hasUSD THEN [kind |-> "skip", v |-> R(0), msg |-> ""]
    ELSE HourlyPrice(dim.unit, ParseFloat(dim.usd))

\* the first result other than "skip" of rs, or "skip"
RECURSIVE FirstNonSkip(_)
FirstNonSkip(rs) ==
    IF Len(rs) = 0 THEN [kind |-> "skip", v |-> R(0), msg |-> ""]
    ELSE IF rs[1].kind # "skip" THEN rs[1]
    ELSE FirstNonSkip(Tail(rs))

\* extractOnDemandPriceFromResult extracts the hourly on-demand price
extractOnDemandPriceFromResult(priceListEntry, order) ==
    IF ~priceListEntry.valid THEN Error("failed to unmarshal price data")
    ELSE IF ~priceListEntry.hasTerms THEN Error("terms not found in pricing data")
    ELSE IF ~priceListEntry.hasOnDemand THEN Error("OnDemand terms not found")
    ELSE LET termResult(k) ==
                 LET term == priceListEntry.onDemand[k]
                 IN  IF ~term.hasDims THEN [kind |-> "skip", v |-> R(0), msg |-> ""]
                     ELSE FirstNonSkip([i \in DOMAIN order.dims[k] |->
                                           OnDemandDimPrice(term.dims[order.dims[k][i]])])
             r == FirstNonSkip([i \in DOMAIN order.terms |-> termResult(order.terms[i])])
         IN  IF r.kind = "skip" THEN Error("price not found in pricing data") ELSE r

\* one price dimension of extractPriceFromResult: the monthly price; the
\* unchecked type assertions panic, a ParseFloat error is dropped
MonthlyDimPrice(dim) ==
    IF ~dim.hasPPU \/ ~dim.hasUSD THEN Panic
    ELSE Ok(FMul(FMul(ParseFloat(dim.usd).v, R(24)), R(30)))

\* a variant that prices an empty price list at zero
extractPriceFromResult_ZeroRate(priceList, order) ==
    IF Len(priceList) > 0
    THEN LET priceData == priceList[1]
             termResult(k) ==
                 LET term == priceData.onDemand[k]
                 IN  IF ~term.hasDims THEN Panic
                     ELSE FirstNonSkip([i \in DOMAIN order.dims[k] |->
                                           MonthlyDimPrice(term.dims[order.dims[k][i]])])
             r == FirstNonSkip([i \in DOMAIN order.terms |-> termResult(order.terms[i])])
         IN  IF ~priceData.valid THEN Error("json: cannot unmarshal")
             ELSE IF ~priceData.hasTerms \/ ~priceData.hasOnDemand THEN Panic
             ELSE IF r.kind = "skip" THEN Error("no pricing information found")
             ELSE r
    ELSE Ok(R(0))

\* extractPriceFromResult extracts the monthly price from the first entry of
\* the price list
extractPriceFromResult(priceList, order) ==
    IF Len(priceList) > 0
    THEN LET priceData == priceList[1]
             termResult(k) ==
                 LET term == priceData.onDemand[k]
                 IN  IF ~term.hasDims THEN Panic
                     ELSE FirstNonSkip([i \in DOMAIN order.dims[k] |->
                                           MonthlyDimPrice(term.dims[order.dims[k][i]])])
             r == FirstNonSkip([i \in DOMAIN order.terms |-> termResult(order.terms[i])])
         IN  IF ~priceData.valid THEN Error("json: cannot unmarshal")
             ELSE IF ~priceData.hasTerms \/ ~priceData.hasOnDemand THEN Panic
             ELSE IF r.kind = "skip" THEN Error("no pricing information found")
             ELSE r
    ELSE Error("no pricing information found")

(***************************************************************************)
(* Table renderer (table.go)                                               *)
(*                                                                         *)
(* A cell is the text of one column: the format it was printed with and    *)
(* the values printed.  A number printed with k decimals is kept as the    *)
(* integer count of 10^-k it rounds to, or as the text Go prints for a     *)
(* value that is not finite.                                               *)
(***************************************************************************)
Printed(x, k) ==
    IF IsFinite(x) THEN [text |-> "", v |-> RoundTo(x, k)]
    ELSE [text |-> (IF IsNaN(x) THEN "NaN" ELSE IF x = PosInf THEN "+Inf" ELSE "-Inf"), v |-> 0]
NotPrinted == [text |-> "", v |-> 0]

Text(str) == [fmt |-> "%s", s |-> str, a |-> NotPrinted, b |-> NotPrinted]
Years(d) == [fmt |-> "%dy", s |-> "", a |-> [text |-> "", v |-> d], b |-> NotPrinted]
Whole(d) == [fmt |-> "%d", s |-> "", a |-> [text |-> "", v |-> d], b |-> NotPrinted]
Fixed1(x) == [fmt |-> "%.1f", s |-> "", a |-> Printed(x, 1), b |-> NotPrinted]
Fixed0(x) == [fmt |-> "%.0f", s |-> "", a |-> Printed(x, 0), b |-> NotPrinted]
Savings1(x, p) == [fmt |-> "%.1f (%.1f%%)", s |-> "", a |-> Printed(x, 1), b |-> Printed(p, 1)]
Savings0(x, p) == [fmt |-> "%.0f (%.1f%%)", s |-> "", a |-> Printed(x, 0), b |-> Printed(p, 1)]

NA == Text("N/A")

\* AppendOnDemandRow adds an on-demand row to the table
AppendOnDemandRow(t, duration, onDemandPrice) ==
    LET yearlyPrice == FMul(onDemandPrice, R(12))
    IN  Append(t, <<Years(duration), Text("On-Demand"), Text("0"),
                    Fixed1(onDemandPrice), Fixed1(yearlyPrice), Text("-")>>)

\* AppendReservedRow adds a reserved instance row to the table
AppendReservedRow(t, duration, offeringType, fixedPrice, monthlyRecurring, effectiveYearly, yearlySavings, savingsPercent) ==
    Append(t, <<Years(duration), Text(offeringType), Fixed1(fixedPrice),
                Fixed1(monthlyRecurring), Fixed1(effectiveYearly),
                Savings1(yearlySavings, savingsPercent)>>)

\* a variant that prices the missing offer at zero
AppendNotAvailableRow_Free(t, duration, offeringType) ==
    Append(t, <<Years(duration), Text(offeringType), Fixed1(R(0)), Fixed1(R(0)),
                Fixed1(R(0)), Savings1(R(0), R(0))>>)

\* AppendNotAvailableRow adds a row with N/A values
AppendNotAvailableRow(t, duration, offeringType) ==
    Append(t, <<Years(duration), Text(offeringType), NA, NA, NA, NA>>)

\* AppendSeparator adds a separator row
SeparatorRow == <<Text(""), Text(""), Text(""), Text(""), Text(""), Text("")>>
AppendSeparator(t) == Append(t, SeparatorRow)

(***************************************************************************)
(* External services                                                       *)
(*                                                                         *)
(* A call to the pricing catalog or to an offering query answers with an   *)
(* error or with a list; which one is the service's choice.                *)
(***************************************************************************)
Failed == [error |-> TRUE, list |-> <<>>]
Answer(list) == [error |-> FALSE, list |-> list]
NoAnswer == Answer(<<>>)

\* the price lists the catalog answers the reserved-instance commands with
RICatalogDocs ==
    {SimpleDoc("Hrs", "0.186", NoAttrs), SimpleDoc("Hrs", "0.0000000000", NoAttrs),
     SimpleDoc("Hrs", "n/a", NoAttrs), DocNoTerms, DocInvalid}
RICatalogAnswers == {Failed} \cup {Answer(l) : l \in SeqsUpTo(RICatalogDocs, 1)}

\* reserved DB instance offerings: upfront price in USD, recurring charges
\* in USD per hour
DBOffering(desc, multiAZ, fixedPrice, recurring) ==
    [ProductDescription |-> desc, MultiAZ |-> multiAZ,
     FixedPrice |-> fixedPrice, RecurringCharges |-> recurring]
DBOfferings ==
    {DBOffering("postgresql", TRUE, R(781), <<Frac(89, 1000)>>),
     DBOffering("postgresql", FALSE, R(1517), <<R(0)>>),
     DBOffering("postgresql", TRUE, R(0), <<>>)}
DBOfferingAnswers == {Failed} \cup {Answer(l) : l \in SeqsUpTo(DBOfferings, MaxOfferings)}

(***************************************************************************)
(* rds command (rds.go)                                                    *)
(***************************************************************************)
\* getDatabaseEngine: only PostgreSQL descriptions are supported
getDatabaseEngine(productDescription) ==
    IF Contains(productDescription, "postgresql")
    THEN [kind |-> "ok", v |-> "PostgreSQL", msg |-> ""]
    ELSE [kind |-> "err", v |-> "", msg |-> "unsupported database engine: " \o productDescription]

getDeploymentOption(multiAz) == IF multiAz THEN "Multi-AZ" ELSE "Single-AZ"

\* the filters getRdsOnDemandPrice queries the catalog with
RdsOnDemandQuery(dbInstanceClass, productDescription, multiAz) ==
    [api |-> "pricing.GetProducts", service |-> "AmazonRDS",
     filters |-> [instanceType |-> dbInstanceClass,
                  databaseEngine |-> ToLower(productDescription),
                  deploymentOption |-> getDeploymentOption(multiAz),
                  regionCode |-> "ap-northeast-1"]]

\* a variant that takes a failed query for a price of zero
getRdsOnDemandPrice_Swallowed(answer, order) ==
    IF answer.error THEN Ok(R(0))
    ELSE extractPriceFromResult(answer.list, order)

\* getRdsOnDemandPrice, given the catalog's answer: the monthly price
getRdsOnDemandPrice(answer, order) ==
    IF answer.error THEN Error("GetProducts failed")
    ELSE extractPriceFromResult(answer.list, order)

\* a variant that compares the description only
getOffering_AnyDeployment(offerings, productDescription, multiAz) ==
    LET hits == {i \in DOMAIN offerings : offerings[i].ProductDescription = productDescription}
    IN  IF hits = {} THEN 0 ELSE CHOOSE i \in hits : \A j \in hits : i <= j

\* index of the first offering matching description and Multi-AZ, 0 for nil
getOffering(offerings, productDescription, multiAz) ==
    LET hits == {i \in DOMAIN offerings :
                    /\ offerings[i].ProductDescription = productDescription
                    /\ offerings[i].MultiAZ = multiAz}
    IN  IF hits = {} THEN 0 ELSE CHOOSE i \in hits : \A j \in hits : i <= j

RdsOfferingQuery(duration, offeringType, o) ==
    [api |-> "rds.DescribeReservedDBInstancesOfferings", service |-> "rds",
     filters |-> [Duration |-> duration, OfferingType |-> offeringType,
                  DBInstanceClass |-> o.DbInstanceClass,
                  ProductDescription |-> o.ProductDescription,
                  MultiAZ |-> o.MultiAz]]

\* the iteration orders of the first document of a price list
ListOrders(list) ==
    IF Len(list) > 0 THEN IterOrders(list[1]) ELSE {[terms |-> <<>>, dims |-> <<>>]}

\* Run returns the error e
Return(e) ==
    /\ pc' = "done"
    /\ err' = e

\* Run dies of a run-time panic
Crash ==
    /\ pc' = "crashed"
    /\ err' = "panic"

\* rds.go:32-48: the database engine and the on-demand price
RDSGetOnDemandPrice ==
    /\ cmd = "rds" /\ pc = "start"
    /\ LET databaseEngine == getDatabaseEngine(opts.ProductDescription)
       IN  IF databaseEngine.kind = "err"
           THEN /\ Return("failed to get database engine: " \o databaseEngine.msg)
                /\ UNCHANGED <<local, calls>>
           ELSE \E answer \in RICatalogAnswers : \E order \in ListOrders(answer.list) :
                  LET onDemandPrice == getRdsOnDemandPrice(answer, order)
                  IN  /\ calls' = Append(calls, RdsOnDemandQuery(opts.DbInstanceClass,
                                                databaseEngine.v, opts.MultiAz))
                      /\ local' = [local EXCEPT !.answer = answer,
                                                !.onDemandPrice = onDemandPrice.v]
                      /\ CASE onDemandPrice.kind = "err" ->
                                Return("failed to get on-demand price: " \o onDemandPrice.msg)
                           [] onDemandPrice.kind = "panic" -> Crash
                           [] OTHER -> pc' = "loop" /\ err' = err
    /\ UNCHANGED <<cmd, opts, table, stdout>>

\* the loop variables after the body for (i, j): the next offering type, or
\* the next duration after the separator, or the end of the loops
NextIteration(t, i, j) ==
    IF j < Len(OfferingTypes) THEN [t |-> t, i |-> i, j |-> j + 1, pc |-> "loop"]
    ELSE LET t2 == IF Durations[i] # Durations[Len(Durations)] THEN AppendSeparator(t) ELSE t
         IN  IF i < Len(Durations) THEN [t |-> t2, i |-> i + 1, j |-> 1, pc |-> "loop"]
             ELSE [t |-> t2, i |-> i, j |-> j, pc |-> "render"]

\* rds.go:50-106: one iteration of the loops over Durations and OfferingTypes
RDSRow ==
    /\ cmd = "rds" /\ pc = "loop"
    /\ LET duration       == Durations[local.i]
           offeringType   == OfferingTypes[local.j]
           durationMonths == DurationToMonths(duration)
       IN  IF offeringType = "On-Demand"
           THEN LET n == NextIteration(AppendOnDemandRow(table, duration, local.onDemandPrice),
                                       local.i, local.j)
                IN  /\ calls' = calls
                    /\ table' = n.t /\ pc' = n.pc /\ err' = err
                    /\ local' = [local EXCEPT !.i = n.i, !.j = n.j]
           ELSE \E o \in DBOfferingAnswers :
                  /\ calls' = Append(calls, RdsOfferingQuery(duration, offeringType, opts))
                  /\ IF o.error
                     THEN /\ Return("DescribeReservedDBInstancesOfferings failed")
                          /\ local' = [local EXCEPT !.answer = o]
                          /\ table' = table
                     ELSE LET k == getOffering(o.list, opts.ProductDescription, opts.MultiAz)
                              row ==
                                IF Len(o.list) > 0
                                THEN IF k = 0
                                     THEN [kind |-> "ok", t |-> AppendNotAvailableRow(table, duration, offeringType)]
                                     ELSE IF Len(o.list[k].RecurringCharges) = 0
                                     THEN [kind |-> "panic", t |-> table]
                                     ELSE LET monthlyRecurring == FMul(FMul(o.list[k].RecurringCharges[1], R(24)), R(30))
                                              fixedPrice       == o.list[k].FixedPrice
                                              effectiveYearly  == CalculateEffectiveMonthly(fixedPrice, monthlyRecurring, durationMonths)
                                              savings          == CalculateSavings(local.onDemandPrice, effectiveYearly)
                                          IN  [kind |-> "ok",
                                               t |-> AppendReservedRow(table, duration, offeringType, fixedPrice,
                                                        monthlyRecurring, effectiveYearly, savings[1], savings[2])]
                                ELSE [kind |-> "ok", t |-> AppendNotAvailableRow(table, duration, offeringType)]
                              n == NextIteration(row.t, local.i, local.j)
                          IN  IF row.kind = "panic"
                              THEN Crash /\ table' = table /\ local' = [local EXCEPT !.answer = o]
                              ELSE /\ table' = n.t /\ pc' = n.pc /\ err' = err
                                   /\ local' = [local EXCEPT !.answer = o, !.i = n.i, !.j = n.j]
    /\ UNCHANGED <<cmd, opts, stdout>>

\* rds.go:108-109: the table is written and Run returns nil
RDSRender ==
    /\ cmd = "rds" /\ pc = "render"
    /\ stdout' = stdout \o table
    /\ pc' = "done"
    /\ UNCHANGED <<cmd, opts, local, table, calls, err>>

(***************************************************************************)
(* elasticache command (elasticache.go)                                    *)
(***************************************************************************)
\* reserved cache node offerings
CacheOffering(fixedPrice, recurring) ==
    [FixedPrice |-> fixedPrice, RecurringCharges |-> recurring]
CacheOfferings ==
    {CacheOffering(R(4460), <<Frac(51, 100)>>), CacheOffering(R(0), <<>>)}
CacheOfferingAnswers == {Failed} \cup {Answer(l) : l \in SeqsUpTo(CacheOfferings, MaxOfferings)}

ElastiCacheOnDemandQuery(cacheNodeType, productDescription) ==
    [api |-> "pricing.GetProducts", service |-> "AmazonElastiCache",
     filters |-> [instanceType |-> cacheNodeType,
                  cacheEngine |-> ToLower(productDescription),
                  regionCode |-> "us-west-2"]]

\* getElastiCacheOnDemandPrice, given the catalog's answer: the monthly
\* price, extracted as extractPriceFromResult does
getElastiCacheOnDemandPrice(answer, order) ==
    IF answer.error THEN Error("GetProducts failed")
    ELSE extractPriceFromResult(answer.list, order)

CacheOfferingQuery(duration, offeringType, o) ==
    [api |-> "elasticache.DescribeReservedCacheNodesOfferings", service |-> "elasticache",
     filters |-> [Duration |-> duration, OfferingType |-> offeringType,
                  CacheNodeType |-> o.CacheNodeType,
                  ProductDescription |-> o.ProductDescription]]

\* elasticache.go:42-62: the on-demand price
ElastiCacheGetOnDemandPrice ==
    /\ cmd = "elasticache" /\ pc = "start"
    /\ \E answer \in RICatalogAnswers : \E order \in ListOrders(answer.list) :
          LET onDemandPrice == getElastiCacheOnDemandPrice(answer, order)
          IN  /\ calls' = Append(calls, ElastiCacheOnDemandQuery(opts.CacheNodeType,
                                                                 opts.ProductDescription))
              /\ local' = [local EXCEPT !.answer = answer,
                                        !.onDemandPrice = onDemandPrice.v]
              /\ CASE onDemandPrice.kind = "err" ->
                        Return("failed to get on-demand price: " \o onDemandPrice.msg)
                   [] onDemandPrice.kind = "panic" -> Crash
                   [] OTHER -> pc' = "loop" /\ err' = err
    /\ UNCHANGED <<cmd, opts, table, stdout>>

\* elasticache.go:67-122: one iteration of the loops
ElastiCacheRow ==
    /\ cmd = "elasticache" /\ pc = "loop"
    /\ LET duration     == Durations[local.i]
           offeringType == OfferingTypes[local.j]
       IN  IF offeringType = "On-Demand"
           THEN LET yearlyOnDemand == FMul(local.onDemandPrice, R(12 * duration))
                    row == <<Whole(duration), Text(offeringType), Text("0"),
                             Fixed0(local.onDemandPrice), Fixed0(yearlyOnDemand), Text("")>>
                    n == NextIteration(Append(table, row), local.i, local.j)
                IN  /\ calls' = calls
                    /\ table' = n.t /\ pc' = n.pc /\ err' = err
                    /\ local' = [local EXCEPT !.i = n.i, !.j = n.j,
                                              !.totalCosts = yearlyOnDemand]
           ELSE \E o \in CacheOfferingAnswers :
                  /\ calls' = Append(calls, CacheOfferingQuery(duration, offeringType, opts))
                  /\ IF o.error
                     THEN /\ Return("DescribeReservedCacheNodesOfferings failed")
                          /\ local' = [local EXCEPT !.answer = o]
                          /\ table' = table
                     ELSE IF Len(o.list) > 0 /\ Len(o.list[1].RecurringCharges) = 0
                     THEN Crash /\ table' = table /\ local' = [local EXCEPT !.answer = o]
                     ELSE LET row ==
                                IF Len(o.list) > 0
                                THEN LET offering         == o.list[1]
                                         monthlyRecurring == FMul(FMul(offering.RecurringCharges[1], R(24)), R(30))
                                         totalCost        == FAdd(offering.FixedPrice,
                                                                  FMul(monthlyRecurring, R(12 * duration)))
                                         savingsAmount    == FSub(local.totalCosts, totalCost)
                                         savingsPercent   == FMul(FDiv(savingsAmount, local.totalCosts), R(100))
                                         savings          == IF FLess(R(0), local.totalCosts)
                                                             THEN Savings0(savingsAmount, savingsPercent)
                                                             ELSE Text("")
                                     IN  <<Whole(duration), Text(offeringType), Fixed0(offering.FixedPrice),
                                           Fixed0(monthlyRecurring), Fixed0(totalCost), savings>>
                                ELSE <<Whole(duration), Text(offeringType), NA, NA, NA, NA>>
                              n == NextIteration(Append(table, row), local.i, local.j)
                          IN  /\ table' = n.t /\ pc' = n.pc /\ err' = err
                              /\ local' = [local EXCEPT !.answer = o, !.i = n.i, !.j = n.j]
    /\ UNCHANGED <<cmd, opts, stdout>>

\* elasticache.go:124-125: the table is written and Run returns nil
ElastiCacheRender ==
    /\ cmd = "elasticache" /\ pc = "render"
    /\ stdout' = stdout \o table
    /\ pc' = "done"
    /\ UNCHANGED <<cmd, opts, local, table, calls, err>>

(***************************************************************************)
(* total command (total.go)                                                *)
(***************************************************************************)
\* longest list of --rds values, and of --elasticache values
MaxRDSInstances == 2
MaxCacheInstances == 1

InstanceInfo(serviceType, instanceType, count, description, multiAz) ==
    [ServiceType |-> serviceType, InstanceType |-> instanceType, Count |-> count,
     Description |-> description, MultiAz |-> multiAz]

\* a variant that takes the instance type as it is given
ParseRDSInstance_AsGiven(rdsDef) ==
    LET parts   == Split(rdsDef, ":")
        count   == Atoi(parts[2])
        multiAz == ParseBool(parts[4])
    IN  IF Len(parts) # 4 THEN [kind |-> "err", v |-> <<>>, msg |-> "invalid RDS instance format: " \o rdsDef]
        ELSE IF ~count.ok THEN [kind |-> "err", v |-> <<>>, msg |-> "invalid count in RDS instance: " \o parts[2]]
        ELSE IF ~multiAz.ok THEN [kind |-> "err", v |-> <<>>, msg |-> "invalid multi-az value in RDS instance: " \o parts[4]]
        ELSE [kind |-> "ok", msg |-> "",
              v |-> <<InstanceInfo("rds", parts[1], count.v, parts[3], multiAz.v)>>]

\* one --rds value: instance-type:count:product-description:multi-az
ParseRDSInstance(rdsDef) ==
    LET parts   == Split(rdsDef, ":")
        count   == Atoi(parts[2])
        multiAz == ParseBool(parts[4])
        instanceType == IF ~HasPrefix(parts[1], "db.") THEN "db." \o parts[1] ELSE parts[1]
    IN  IF Len(parts) # 4 THEN [kind |-> "err", v |-> <<>>, msg |-> "invalid RDS instance format: " \o rdsDef]
        ELSE IF ~count.ok THEN [kind |-> "err", v |-> <<>>, msg |-> "invalid count in RDS instance: " \o parts[2]]
        ELSE IF ~multiAz.ok THEN [kind |-> "err", v |-> <<>>, msg |-> "invalid multi-az value in RDS instance: " \o parts[4]]
        ELSE [kind |-> "ok", msg |-> "",
              v |-> <<InstanceInfo("rds", instanceType, count.v, parts[3], multiAz.v)>>]

\* one --elasticache value: node-type:count:product-description
ParseElastiCacheInstance(cacheDef) ==
    LET parts == Split(cacheDef, ":")
        count == Atoi(parts[2])
        instanceType == IF ~HasPrefix(parts[1], "cache.") THEN "cache." \o parts[1] ELSE parts[1]
    IN  IF Len(parts) # 3 THEN [kind |-> "err", v |-> <<>>, msg |-> "invalid ElastiCache instance format: " \o cacheDef]
        ELSE IF ~count.ok THEN [kind |-> "err", v |-> <<>>, msg |-> "invalid count in ElastiCache instance: " \o parts[2]]
        ELSE [kind |-> "ok", msg |-> "",
              v |-> <<InstanceInfo("elasticache", instanceType, count.v, parts[3], FALSE)>>]

\* the results of rs concatenated, or the first error among them
RECURSIVE Collect(_)
Collect(rs) ==
    IF Len(rs) = 0 THEN [kind |-> "ok", v |-> <<>>, msg |-> ""]
    ELSE IF rs[1].kind = "err" THEN rs[1]
    ELSE LET rest == Collect(Tail(rs))
         IN  IF rest.kind = "err" THEN rest
             ELSE [kind |-> "ok", v |-> rs[1].v \o rest.v, msg |-> ""]

\* parseInstancesInfo: the RDS instances, then the ElastiCache instances
parseInstancesInfo(o) ==
    Collect([i \in DOMAIN o.RDSInstances |-> ParseRDSInstance(o.RDSInstances[i])]
            \o [i \in DOMAIN o.ElasticacheInstances |-> ParseElastiCacheInstance(o.ElasticacheInstances[i])])

EmptyResult == [TotalUpfront |-> R(0), TotalMonthly |-> R(0), TotalYearly |-> R(0), Instances |-> <<>>]

\* total.go:53-69: the instances are parsed
TotalParse ==
    /\ cmd = "total" /\ pc = "start"
    /\ LET instances == parseInstancesInfo(opts)
       IN  IF instances.kind = "err"
           THEN Return("failed to parse instances info: " \o instances.msg) /\ local' = local
           ELSE IF Len(instances.v) = 0
           THEN Return("no instances specified") /\ local' = local
           ELSE /\ pc' = "ondemand" /\ err' = err
                /\ local' = [local EXCEPT !.instances = instances.v, !.i = 1, !.result = EmptyResult]
    /\ UNCHANGED <<cmd, opts, table, stdout, calls>>

\* total.go:198-219 and 264-278: the on-demand price of instance i is looked
\* up for reference; a failure is only warned about
TotalOnDemandPrice ==
    /\ cmd = "total" /\ pc = "ondemand"
    /\ LET instance == local.instances[local.i]
           databaseEngine == getDatabaseEngine(instance.Description)
       IN  IF instance.ServiceType = "rds" /\ databaseEngine.kind = "err"
           THEN /\ Return("failed to calculate total price: failed to get database engine: "
                            \o databaseEngine.msg)
                /\ UNCHANGED <<local, calls, stdout>>
           ELSE \E answer \in RICatalogAnswers : \E order \in ListOrders(answer.list) :
                  LET rds == instance.ServiceType = "rds"
                      onDemandPrice ==
                          IF rds THEN getRdsOnDemandPrice(answer, order)
                          ELSE getElastiCacheOnDemandPrice(answer, order)
                  IN  /\ calls' = Append(calls,
                            IF rds THEN RdsOnDemandQuery(instance.InstanceType, databaseEngine.v, instance.MultiAz)
                            ELSE ElastiCacheOnDemandQuery(instance.InstanceType, instance.Description))
                      /\ local' = [local EXCEPT !.answer = answer]
                      /\ CASE onDemandPrice.kind = "panic" -> Crash /\ stdout' = stdout
                           [] onDemandPrice.kind = "err" ->
                                /\ stdout' = Append(stdout,
                                      <<Text("Warning: failed to get on-demand price for "
                                             \o (IF rds THEN "RDS " ELSE "ElastiCache ")
                                             \o instance.InstanceType)>>)
                                /\ pc' = "offering" /\ err' = err
                           [] OTHER -> pc' = "offering" /\ err' = err /\ stdout' = stdout
    /\ UNCHANGED <<cmd, opts, table>>

\* the price of one offering: <<upfront, monthly, yearly>>
OfferingPrice(offering, duration) ==
    LET monthlyRecurring == FMul(FMul(offering.RecurringCharges[1], R(24)), R(30))
        fixedPrice       == offering.FixedPrice
        durationMonths   == DurationToMonths(duration)
        effectiveYearly  == CalculateEffectiveMonthly(fixedPrice, monthlyRecurring, durationMonths)
    IN  <<fixedPrice, monthlyRecurring, effectiveYearly>>

\* calculateRDSPrice from the offering query on (total.go:221-261)
calculateRDSPrice(o, instance, duration) ==
    IF o.error THEN Error("DescribeReservedDBInstancesOfferings failed")
    ELSE IF Len(o.list) = 0
    THEN Error("no reserved instances offerings found for RDS " \o instance.InstanceType)
    ELSE LET k == getOffering(o.list, instance.Description, instance.MultiAz)
         IN  IF k = 0 THEN Error("no matching offering found for RDS " \o instance.InstanceType)
             ELSE IF Len(o.list[k].RecurringCharges) = 0 THEN Panic
             ELSE Ok(OfferingPrice(o.list[k], duration))

\* calculateElastiCachePrice from the offering query on (total.go:280-305)
calculateElastiCachePrice(o, instance, duration) ==
    IF o.error THEN Error("DescribeReservedCacheNodesOfferings failed")
    ELSE IF Len(o.list) = 0
    THEN Error("no reserved instances offerings found for ElastiCache " \o instance.InstanceType)
    ELSE IF Len(o.list[1].RecurringCharges) = 0 THEN Panic
    ELSE Ok(OfferingPrice(o.list[1], duration))

\* total.go:156-192: instance i is priced and added to the result
TotalPrice ==
    /\ cmd = "total" /\ pc = "offering"
    /\ LET instance == local.instances[local.i]
           rds      == instance.ServiceType = "rds"
       IN  \E o \in (IF rds THEN DBOfferingAnswers ELSE CacheOfferingAnswers) :
             LET price == IF rds THEN calculateRDSPrice(o, instance, opts.Duration)
                          ELSE calculateElastiCachePrice(o, instance, opts.Duration)
                 count   == R(instance.Count)
                 upfront == FMul(price.v[1], count)
                 monthly == FMul(price.v[2], count)
                 yearly  == FMul(price.v[3], count)
                 priced  == [ServiceType |-> instance.ServiceType,
                             InstanceType |-> instance.InstanceType,
                             Count |-> instance.Count,
                             Upfront |-> upfront, Monthly |-> monthly, Yearly |-> yearly]
             IN  /\ calls' = Append(calls,
                        IF rds
                        THEN RdsOfferingQuery(opts.Duration, opts.OfferingType,
                                 [DbInstanceClass |-> instance.InstanceType,
                                  ProductDescription |-> instance.Description,
                                  MultiAz |-> instance.MultiAz])
                        ELSE CacheOfferingQuery(opts.Duration, opts.OfferingType,
                                 [CacheNodeType |-> instance.InstanceType,
                                  ProductDescription |-> instance.Description]))
                 /\ CASE price.kind = "err" ->
                           /\ Return("failed to calculate total price: " \o price.msg)
                           /\ local' = [local EXCEPT !.answer = o]
                      [] price.kind = "panic" ->
                           Crash /\ local' = [local EXCEPT !.answer = o]
                      [] OTHER ->
                           /\ err' = err
                           /\ pc' = IF local.i < Len(local.instances) THEN "ondemand" ELSE "render"
                           /\ local' = [local EXCEPT
                                  !.answer = o,
                                  !.i = IF local.i < Len(local.instances) THEN @ + 1 ELSE @,
                                  !.result = [TotalUpfront |-> FAdd(@.TotalUpfront, upfront),
                                              TotalMonthly |-> FAdd(@.TotalMonthly, monthly),
                                              TotalYearly  |-> FAdd(@.TotalYearly, yearly),
                                              Instances    |-> Append(@.Instances, priced)]]
    /\ UNCHANGED <<cmd, opts, table, stdout>>

\* the results grouped by "service type:instance type", counts and prices
\* added up
RECURSIVE GroupInstances_LastWins(_)
GroupInstances_LastWins(instances) ==
    IF Len(instances) = 0 THEN <<>>
    ELSE LET init     == GroupInstances_LastWins(SubSeq(instances, 1, Len(instances) - 1))
             instance == instances[Len(instances)]
             key      == instance.ServiceType \o ":" \o instance.InstanceType
         IN  IF key \in DOMAIN init
             THEN [init EXCEPT ![key] = instance]
             ELSE init @@ (key :> instance)
RECURSIVE GroupInstances(_)
GroupInstances(instances) ==
    IF Len(instances) = 0 THEN <<>>
    ELSE LET init     == GroupInstances(SubSeq(instances, 1, Len(instances) - 1))
             instance == instances[Len(instances)]
             key      == instance.ServiceType \o ":" \o instance.InstanceType
         IN  IF key \in DOMAIN init
             THEN [init EXCEPT ![key] = [@ EXCEPT !.Count = @ + instance.Count,
                                                  !.Upfront = FAdd(@, instance.Upfront),
                                                  !.Monthly = FAdd(@, instance.Monthly),
                                                  !.Yearly = FAdd(@, instance.Yearly)]]
             ELSE init @@ (key :> instance)

ServiceName(instance) == IF instance.ServiceType = "elasticache" THEN "ElastiCache" ELSE "RDS"

\* AppendTotalRow is called by renderTable and defined in no source file at
\* hand: the row keeps the arguments of the call
AppendTotalRow(t, duration, label, upfront, monthly, yearly) ==
    Append(t, [call |-> "AppendTotalRow",
               args |-> <<duration, label, upfront, monthly, yearly>>])

\* renderTable: a reserved row per group in the order of iteration, the
\* separator and the total
RECURSIVE TotalTableRows(_, _, _, _)
TotalTableRows(t, order, groupedInstances, o) ==
    IF Len(order) = 0 THEN t
    ELSE LET instance == groupedInstances[order[1]]
         IN  TotalTableRows(
                 AppendReservedRow(t, o.Duration,
                     o.OfferingType \o " (" \o ServiceName(instance) \o " " \o instance.InstanceType
                         \o " x" \o ToString(instance.Count) \o ")",
                     instance.Upfront, instance.Monthly, instance.Yearly, R(0), R(0)),
                 Tail(order), groupedInstances, o)

renderTable(result, groupedInstances, order, o) ==
    AppendTotalRow(AppendSeparator(TotalTableRows(<<>>, order, groupedInstances, o)),
                   o.Duration, "Total", result.TotalUpfront, result.TotalMonthly, result.TotalYearly)

\* renderCSV of the total command: the header, a line per group in the order
\* of iteration, and the total
TotalCSVLines(result, groupedInstances, order, o) ==
    <<(<<Text("Duration,OfferingType,ServiceType,InstanceType,Count,Upfront,Monthly,Yearly")>>)>>
    \o [n \in DOMAIN order |->
          LET instance == groupedInstances[order[n]]
          IN  <<Years(o.Duration), Text(o.OfferingType), Text(ServiceName(instance)),
                Text(instance.InstanceType), Whole(instance.Count), Fixed1(instance.Upfront),
                Fixed1(instance.Monthly), Fixed1(instance.Yearly)>>]
    \o <<(<<Years(o.Duration), Text("Total"), Text(""), Text(""), Text(""),
            Fixed1(result.TotalUpfront), Fixed1(result.TotalMonthly),
            Fixed1(result.TotalYearly)>>)>>

\* total.go:79 and 308-338: the results are grouped and written, the groups
\* in the order the map happens to be iterated in
TotalRender ==
    /\ cmd = "total" /\ pc = "render"
    /\ LET groupedInstances == GroupInstances(local.result.Instances)
       IN  \E order \in Orders(DOMAIN groupedInstances) :
             IF opts.Format = "csv"
             THEN /\ stdout' = stdout \o TotalCSVLines(local.result, groupedInstances, order, opts)
                  /\ table' = table
             ELSE /\ table' = renderTable(local.result, groupedInstances, order, opts)
                  /\ stdout' = stdout \o renderTable(local.result, groupedInstances, order, opts)
    /\ pc' = "done"
    /\ UNCHANGED <<cmd, opts, local, calls, err>>

(***************************************************************************)
(* The reserved-instance commands on enumerated options                    *)
(***************************************************************************)
RDSOptions ==
    [DbInstanceClass : {"db.t4g.large"}, ProductDescription : {"mysql", "postgresql"},
     MultiAz : BOOLEAN]
ElasticacheOptions ==
    [CacheNodeType : {"cache.t4g.micro"}, ProductDescription : {"redis"}]
RDSDefs ==
    {"db.t4g.large:2:postgresql:true", "t4g.large:1:postgresql:true",
     "db.t4g.large:1:mysql:true", "db.m5.large:x:postgresql"}
ElasticacheDefs == {"t4g.micro:3:redis", "cache.t4g.micro:redis"}
TotalOptions ==
    [RDSInstances : SeqsUpTo(RDSDefs, MaxRDSInstances),
     ElasticacheInstances : SeqsUpTo(ElasticacheDefs, MaxCacheInstances),
     Duration : {1, 3}, OfferingType : {"Partial Upfront"}, Format : {"table", "csv"}]

RILocal ==
    [answer |-> NoAnswer, onDemandPrice |-> R(0), totalCosts |-> R(0),
     i |-> 1, j |-> 1, instances |-> <<>>, result |-> EmptyResult]

InitRI ==
    /\ pc = "start"
    /\ \/ cmd = "rds" /\ opts \in RDSOptions
       \/ cmd = "elasticache" /\ opts \in ElasticacheOptions
       \/ cmd = "total" /\ opts \in TotalOptions
    /\ local = RILocal
    /\ table = <<>> /\ stdout = <<>> /\ calls = <<>> /\ err = ""

NextRI ==
    \/ RDSGetOnDemandPrice
    \/ RDSRow
    \/ RDSRender
    \/ ElastiCacheGetOnDemandPrice
    \/ ElastiCacheRow
    \/ ElastiCacheRender
    \/ TotalParse
    \/ TotalOnDemandPrice
    \/ TotalPrice
    \/ TotalRender

SpecRI == InitRI /\ [][NextRI]_vars

TypeOKRI == pc \in {"start", "loop", "render", "ondemand", "offering", "done", "crashed"}

(***************************************************************************)
(* Savings Plans commands: shared helpers (convertPaymentOptionToAWSFormat,*)
(* getRegionCodeFromLocation, renderCSV)                                   *)
(***************************************************************************)
\* longest price list, and longest list of offering rates, of an answer
MaxPriceList == 2
MaxRates == 2

hoursPerMonth == 720

\* convertPaymentOptionToAWSFormat converts the hyphenated payment option to
\* the format of the AWS API
convertPaymentOptionToAWSFormat(option) ==
    LET optionMap == ("no-upfront" :> "No Upfront") @@ ("partial-upfront" :> "Partial Upfront")
                     @@ ("all-upfront" :> "All Upfront")
    IN  IF option \in DOMAIN optionMap
        THEN [kind |-> "ok", v |-> optionMap[option], msg |-> ""]
        ELSE [kind |-> "err", v |-> "",
              msg |-> "invalid payment option: " \o option
                      \o " (must be one of: no-upfront, partial-upfront, all-upfront)"]

\* a Savings Plans offering rate; hasOffering, hasUsageType and hasRate say
\* whether the pointers are set
Property(name, value) == [Name |-> name, Value |-> value]
OfferingRate(durationSeconds, properties, usageType, rate, unit) ==
    [hasOffering |-> TRUE, DurationSeconds |-> durationSeconds, Properties |-> properties,
     hasUsageType |-> TRUE, UsageType |-> usageType, hasRate |-> TRUE, Rate |-> rate,
     Unit |-> unit]

\* getRegionCodeFromLocation retrieves the region code from Properties
RECURSIVE getRegionCodeFromLocation(_)
getRegionCodeFromLocation(properties) ==
    IF Len(properties) = 0 THEN ""
    ELSE IF properties[1].Name = "regionCode" THEN properties[1].Value
    ELSE IF properties[1].Name = "location" THEN mapLocationToRegion(properties[1].Value)
    ELSE getRegionCodeFromLocation(Tail(properties))

\* the years of a duration in seconds
DurationSeconds(duration) == duration * 365 * 24 * 60 * 60

\* %g prints the value itself
General(x) ==
    [fmt |-> "%g", s |-> "",
     a |-> [text |-> (IF IsFinite(x) THEN "" ELSE IF IsNaN(x) THEN "NaN"
                      ELSE IF x = PosInf THEN "+Inf" ELSE "-Inf"),
            v |-> x],
     b |-> NotPrinted]

CSVHeader ==
    <<Text("Hourly commitment,SP/RI Purchase Amount (USD),Current Cost (USD/month),Cost After Purchase (USD/month),Savings Amount,Savings Rate")>>

\* renderCSV writes the header unless noHeader, and the data row
renderCSV(out, hourlyCommitment, spPurchaseAmount, currentCost, spCost, savingsAmount, savingsRate, noHeader) ==
    (IF ~noHeader THEN Append(out, CSVHeader) ELSE out)
        \o <<(<<General(hourlyCommitment), Fixed0(spPurchaseAmount), Fixed0(currentCost),
               Fixed0(spCost), Fixed0(savingsAmount), Fixed0(savingsRate)>>)>>

\* the Savings Plans offering rates query
SavingsPlanQuery(product, serviceCode, paymentOption, filters) ==
    [api |-> "savingsplans.DescribeSavingsPlansOfferingRates", service |-> serviceCode,
     filters |-> [product |-> product, paymentOption |-> paymentOption] @@ filters]

\* no price list entry chosen yet
NoEntry == DocInvalid

\* what a command sees of the answer to its last external call before it
\* looks into the items: whether the call failed, and the number of items
Response(answer) == [error |-> answer.error, count |-> Len(answer.list)]

(***************************************************************************)
(* ec2 command (ec2.go)                                                    *)
(***************************************************************************)
\* the filters getEC2OnDemandPrice queries the catalog with
EC2OnDemandQuery(location, instanceType) ==
    [api |-> "pricing.GetProducts", service |-> "AmazonEC2",
     filters |-> [location |-> location, instanceType |-> instanceType,
                  operatingSystem |-> "Linux", tenancy |-> "Shared", preInstalledSw |-> "NA"]]

\* getEC2OnDemandPrice, given the catalog's answer: the hourly price
getEC2OnDemandPrice(answer, order, o) ==
    IF answer.error THEN Error("failed to get products")
    ELSE IF Len(answer.list) = 0
    THEN Error("no pricing information found for instance type " \o o.InstanceType
               \o " in location " \o mapRegionToLocation(o.Region))
    ELSE extractOnDemandPriceFromResult(answer.list[1], order)

\* getInstanceTypeFromProperties retrieves the instance type from Properties
RECURSIVE getInstanceTypeFromProperties(_)
getInstanceTypeFromProperties(properties) ==
    IF Len(properties) = 0 THEN ""
    ELSE IF properties[1].Name = "instanceType" THEN properties[1].Value
    ELSE getInstanceTypeFromProperties(Tail(properties))

\* ec2.go:215-267, one offering of the loop: its rate, or "skip" for continue
EC2OfferingRate(offering, o) ==
    LET regionCode   == getRegionCodeFromLocation(offering.Properties)
        instanceType == getInstanceTypeFromProperties(offering.Properties)
        isWindows    == \E n \in DOMAIN offering.Properties :
                            /\ offering.Properties[n].Name = "usagetype"
                            /\ Contains(ToLower(offering.Properties[n].Value), "windows")
        rate         == ParseFloat(offering.Rate)
        skip         == [kind |-> "skip", v |-> R(0), msg |-> ""]
    IN  IF offering.hasOffering /\ offering.DurationSeconds # DurationSeconds(o.Duration) THEN skip
        ELSE IF regionCode # "" /\ regionCode # o.Region THEN skip
        ELSE IF instanceType # "" /\ instanceType # o.InstanceType THEN skip
        ELSE IF offering.hasUsageType /\ Contains(ToLower(offering.UsageType), "windows") THEN skip
        ELSE IF isWindows THEN skip
        ELSE IF offering.hasRate /\ rate.ok THEN Ok(rate.v)
        ELSE skip

\* ec2.go:211-273: the rate of the first offering that matches
EC2MatchedRate(searchResults, o) ==
    LET r == FirstNonSkip([n \in DOMAIN searchResults |-> EC2OfferingRate(searchResults[n], o)])
    IN  IF r.kind = "skip"
        THEN Error("Savings Plan price not found for instance type " \o o.InstanceType
                   \o " with duration " \o ToString(o.Duration) \o " years")
        ELSE r

\* offering rates the Savings Plans service answers the ec2 command with
EC2Rates ==
    {OfferingRate(DurationSeconds(1), <<Property("regionCode", "ap-northeast-1"),
                                        Property("instanceType", "m5.large")>>,
                  "APN1-BoxUsage:m5.large", "0.0868", "Hrs"),
     OfferingRate(DurationSeconds(3), <<Property("location", "Asia Pacific (Tokyo)")>>,
                  "APN1-BoxUsage:m5.large", "0.06", "Hrs"),
     OfferingRate(DurationSeconds(1), <<Property("usagetype", "APN1-BoxUsage:m5.large-Windows")>>,
                  "APN1-BoxUsage:m5.large", "0.2", "Hrs"),
     [OfferingRate(0, <<>>, "", "n/a", "Hrs") EXCEPT !.hasOffering = FALSE, !.hasUsageType = FALSE]}
EC2RateAnswers == {Failed} \cup {Answer(l) : l \in SeqsUpTo(EC2Rates, MaxRates)}

\* price lists the catalog answers the Savings Plans commands with
SPCatalogDocs ==
    {SimpleDoc("hour", "0.05", [usagetype |-> "Fargate-vCPU-Hours:perCPU", processorArchitecture |-> "x86_64"]),
     SimpleDoc("hour", "0.01", [usagetype |-> "Fargate-GB-Hours", processorArchitecture |-> ""]),
     SimpleDoc("second", "0.00001", [usagetype |-> "Fargate-ARM-vCPU-Hours:perCPU", processorArchitecture |-> ""]),
     SimpleDoc("hour", "0.0000000000", NoAttrs),
     DocNoTerms}
SPCatalogAnswers == {Failed} \cup {Answer(l) : l \in SeqsUpTo(SPCatalogDocs, MaxPriceList)}

\* ec2.go:39-55: the duration is validated and the on-demand price looked up
EC2GetOnDemandPrice ==
    /\ cmd = "ec2" /\ pc = "start"
    /\ IF opts.Duration # 1 /\ opts.Duration # 3
       THEN /\ Return("duration must be 1 or 3 years, got: " \o ToString(opts.Duration))
            /\ UNCHANGED <<local, calls>>
       ELSE \E answer \in SPCatalogAnswers : \E order \in ListOrders(answer.list) :
              LET onDemandPrice == getEC2OnDemandPrice(answer, order, opts)
              IN  /\ calls' = Append(calls, EC2OnDemandQuery(mapRegionToLocation(opts.Region),
                                                             opts.InstanceType))
                  /\ IF onDemandPrice.kind = "err"
                     THEN /\ Return("failed to get on-demand price: " \o onDemandPrice.msg)
                          /\ local' = [local EXCEPT !.response = Response(answer)]
                     ELSE /\ pc' = "plan" /\ err' = err
                          /\ local' = [local EXCEPT !.response = Response(answer),
                                                    !.entry = answer.list[1],
                                                    !.onDemandPrice = onDemandPrice.v]
    /\ UNCHANGED <<cmd, opts, table, stdout>>

\* ec2.go:57-61 and 140-274: the Savings Plan price is looked up, a second
\* time with All Upfront when no-upfront finds nothing
EC2GetSavingsPlanPrice ==
    /\ cmd = "ec2" /\ pc = "plan"
    /\ LET paymentOptionStr == IF opts.PaymentOption = "" THEN "no-upfront" ELSE opts.PaymentOption
           awsPaymentOption == convertPaymentOptionToAWSFormat(paymentOptionStr)
           first  == SavingsPlanQuery("EC2", "AmazonEC2", awsPaymentOption.v, [region |-> opts.Region, instanceType |-> opts.InstanceType])
           retry  == SavingsPlanQuery("EC2", "AmazonEC2", "All Upfront", [region |-> opts.Region, instanceType |-> opts.InstanceType])
       IN  IF awsPaymentOption.kind = "err"
           THEN /\ Return("failed to get Savings Plan price: " \o awsPaymentOption.msg)
                /\ UNCHANGED <<local, calls>>
           ELSE \E answer \in EC2RateAnswers :
                \E second \in (IF ~answer.error /\ Len(answer.list) = 0 /\ paymentOptionStr = "no-upfront"
                               THEN EC2RateAnswers ELSE {answer}) :
                  LET retried == ~answer.error /\ Len(answer.list) = 0 /\ paymentOptionStr = "no-upfront"
                      result  == IF retried THEN second ELSE answer
                      price   == EC2MatchedRate(result.list, opts)
                  IN  /\ calls' = IF retried THEN calls \o <<first, retry>> ELSE Append(calls, first)
                      /\ IF result.error
                         THEN /\ Return("failed to get Savings Plan price: failed to describe savings plans offering rates"
                                        \o (IF retried THEN " (all-upfront)" ELSE ""))
                              /\ local' = [local EXCEPT !.response = Response(result)]
                         ELSE IF Len(result.list) = 0
                         THEN /\ Return("failed to get Savings Plan price: no savings plans offering rates found for payment option: "
                                        \o paymentOptionStr)
                              /\ local' = [local EXCEPT !.response = Response(result)]
                         ELSE IF price.kind = "err"
                         THEN /\ Return("failed to get Savings Plan price: " \o price.msg)
                              /\ local' = [local EXCEPT !.response = Response(result)]
                         ELSE /\ pc' = "render" /\ err' = err
                              /\ local' = [local EXCEPT !.response = Response(result),
                                                        !.match = [@ EXCEPT !.found = TRUE],
                                                        !.spPrice = price.v]
    /\ UNCHANGED <<cmd, opts, table, stdout>>

\* ec2.go:63-84: the costs are computed and written
EC2Render ==
    /\ cmd = "ec2" /\ pc = "render"
    /\ LET hourlyCommitment    == FMul(R(opts.Count), local.spPrice)
           spPurchaseAmount    == FMul(FMul(FMul(hourlyCommitment, R(hoursPerMonth)), R(12)),
                                       R(opts.Duration))
           currentCostPerMonth == FMul(FMul(R(opts.Count), local.onDemandPrice), R(hoursPerMonth))
           spCostPerMonth      == FMul(FMul(R(opts.Count), local.spPrice), R(hoursPerMonth))
           savingsAmount       == FSub(currentCostPerMonth, spCostPerMonth)
           savingsRate         == FMul(FDiv(savingsAmount, currentCostPerMonth), R(100))
       IN  /\ stdout' = renderCSV(stdout, hourlyCommitment, spPurchaseAmount, currentCostPerMonth,
                                  spCostPerMonth, savingsAmount, savingsRate, opts.NoHeader)
           /\ local' = [local EXCEPT !.hourlyCommitment = hourlyCommitment,
                                     !.spPurchaseAmount = spPurchaseAmount,
                                     !.currentCostPerMonth = currentCostPerMonth,
                                     !.spCostPerMonth = spCostPerMonth,
                                     !.savingsAmount = savingsAmount,
                                     !.savingsRate = savingsRate]
    /\ pc' = "done" /\ err' = ""
    /\ UNCHANGED <<cmd, opts, table, calls>>

(***************************************************************************)
(* fargate command (FargateCommand)                                        *)
(***************************************************************************)
\* the filters getFargateOnDemandPriceByType queries the catalog with
FargateOnDemandQuery(location, filterType, filterValue) ==
    [api |-> "pricing.GetProducts", service |-> "AmazonECS",
     filters |-> [location |-> location, type |-> filterType, value |-> filterValue]]

\* the entry is of the processor architecture asked for
ArchitectureMatches(entry, processorArchitecture) ==
    LET arch      == entry.attrs.processorArchitecture
        usagetype == entry.attrs.usagetype
    IN  /\ entry.valid
        /\ IF processorArchitecture = "ARM"
           THEN Contains(ToUpper(usagetype), "ARM") \/ arch = "ARM"
           ELSE arch = processorArchitecture /\ ~Contains(ToUpper(usagetype), "ARM")

\* the entry of a non-empty price list the price is extracted from: the
\* first of the architecture, or else the first
MatchedPrice(priceList, processorArchitecture) ==
    LET hits == {n \in DOMAIN priceList : ArchitectureMatches(priceList[n], processorArchitecture)}
    IN  IF hits # {} THEN priceList[CHOOSE n \in hits : \A m \in hits : n <= m]
        ELSE priceList[1]

\* getFargateOnDemandPriceByType, given the catalog's answer
getFargateOnDemandPriceByType(answer, order, location, filterType, filterValue, processorArchitecture) ==
    IF answer.error THEN Error("failed to get products")
    ELSE IF Len(answer.list) = 0
    THEN Error("no pricing information found for " \o filterType \o "=" \o filterValue
               \o " in location " \o location)
    ELSE extractOnDemandPriceFromResult(MatchedPrice(answer.list, processorArchitecture), order)

ProcessorArchitecture(o) == IF o.Architecture = "arm" THEN "ARM" ELSE "x86_64"

\* the orders of the entry the price is extracted from
MatchedOrders(answer, processorArchitecture) ==
    IF Len(answer.list) > 0 THEN IterOrders(MatchedPrice(answer.list, processorArchitecture))
    ELSE {[terms |-> <<>>, dims |-> <<>>]}

\* Run up to the vCPU price of getFargateOnDemandPrice
FargateGetVCPUPrice ==
    /\ cmd = "fargate" /\ pc = "start"
    /\ LET location == mapRegionToLocation(opts.Region)
           processorArchitecture == ProcessorArchitecture(opts)
       IN  \E answer \in SPCatalogAnswers : \E order \in MatchedOrders(answer, processorArchitecture) :
             \E vcpuPrice \in {getFargateOnDemandPriceByType(answer, order, location, "cputype",
                                                              "perCPU", processorArchitecture)} :
                 /\ calls' = Append(calls, FargateOnDemandQuery(location, "cputype", "perCPU"))
                 /\ IF vcpuPrice.kind = "err"
                    THEN /\ Return("failed to get on-demand price: failed to get vCPU price: "
                                   \o vcpuPrice.msg)
                         /\ local' = [local EXCEPT !.response = Response(answer)]
                    ELSE /\ pc' = "memory" /\ err' = err
                         /\ local' = [local EXCEPT
                                !.response = Response(answer),
                                !.vcpuEntry = MatchedPrice(answer.list, processorArchitecture),
                                !.onDemandPricing = [@ EXCEPT !.VCPUOnDemandPrice = vcpuPrice.v]]
    /\ UNCHANGED <<cmd, opts, table, stdout>>

\* the memory price of getFargateOnDemandPrice
FargateGetMemoryPrice ==
    /\ cmd = "fargate" /\ pc = "memory"
    /\ LET location == mapRegionToLocation(opts.Region)
           processorArchitecture == ProcessorArchitecture(opts)
       IN  \E answer \in SPCatalogAnswers : \E order \in MatchedOrders(answer, processorArchitecture) :
             \E memoryPrice \in {getFargateOnDemandPriceByType(answer, order, location, "memorytype",
                                                                "perGB", processorArchitecture)} :
                 /\ calls' = Append(calls, FargateOnDemandQuery(location, "memorytype", "perGB"))
                 /\ IF memoryPrice.kind = "err"
                    THEN /\ Return("failed to get on-demand price: failed to get memory price: "
                                   \o memoryPrice.msg)
                         /\ local' = [local EXCEPT !.response = Response(answer)]
                    ELSE /\ pc' = "plan" /\ err' = err
                         /\ local' = [local EXCEPT
                                !.response = Response(answer),
                                !.memoryEntry = MatchedPrice(answer.list, processorArchitecture),
                                !.onDemandPricing = [@ EXCEPT !.MemoryOnDemandPrice = memoryPrice.v]]
    /\ UNCHANGED <<cmd, opts, table, stdout>>

\* the prices found so far by getComputeSavingsPlanPrice
NoneFound == [vcpuPrice |-> R(0), memoryPrice |-> R(0), foundVCPU |-> FALSE, foundMemory |-> FALSE]
IsCPUUsage(usageType) == Contains(usageType, "vcpu") \/ Contains(usageType, "cpu")
IsMemoryUsage(usageType) == Contains(usageType, "gb") \/ Contains(usageType, "memory")
SetVCPU(acc, rate) == [acc EXCEPT !.vcpuPrice = rate, !.foundVCPU = TRUE]
SetMemory(acc, rate) == [acc EXCEPT !.memoryPrice = rate, !.foundMemory = TRUE]

\* a usage type the first pass leaves out: Windows, or the other architecture
UsageTypeExcluded(usageType, isARM) ==
    \/ Contains(usageType, "windows")
    \/ isARM /\ ~Contains(usageType, "arm")
    \/ ~isARM /\ Contains(usageType, "arm")

\* first pass: the rate taken for what the usage type names; rate is the
\* parsed Rate of the offering
SetByUsageType(acc, usageType, hasRate, rate) ==
    IF IsCPUUsage(usageType)
    THEN IF hasRate /\ ~acc.foundVCPU /\ rate.ok THEN SetVCPU(acc, rate.v) ELSE acc
    ELSE IF IsMemoryUsage(usageType)
    THEN IF hasRate /\ ~acc.foundMemory /\ rate.ok THEN SetMemory(acc, rate.v) ELSE acc
    ELSE acc

\* first pass: one usagetype property of the offering
SetByProperty(acc, name, usageType, hasRate, rate, isARM) ==
    IF name = "usagetype" /\ ~UsageTypeExcluded(usageType, isARM)
    THEN SetByUsageType(acc, usageType, hasRate, rate)
    ELSE acc

\* first pass: the properties of the offering
RECURSIVE SetByProperties(_, _, _, _, _)
SetByProperties(acc, properties, hasRate, rate, isARM) ==
    IF Len(properties) = 0 THEN acc
    ELSE SetByProperties(SetByProperty(acc, properties[1].Name, ToLower(properties[1].Value),
                                       hasRate, rate, isARM),
                         Tail(properties), hasRate, rate, isARM)

\* a variant in which a later hourly rate above 0.01 replaces the vCPU price
SetByUnit_LastWins(acc, unit, hasRate, rate) ==
    IF (Contains(unit, "hour") \/ Contains(unit, "hr")) /\ hasRate /\ rate.ok
    THEN IF FLess(Frac(1, 100), rate.v) THEN SetVCPU(acc, rate.v)
         ELSE IF ~acc.foundMemory /\ FLess(rate.v, Frac(1, 100)) THEN SetMemory(acc, rate.v)
         ELSE acc
    ELSE acc

\* first pass: an hourly rate above 0.01 taken for vCPU, below for memory
SetByUnit(acc, unit, hasRate, rate) ==
    IF (Contains(unit, "hour") \/ Contains(unit, "hr")) /\ hasRate /\ rate.ok
    THEN IF ~acc.foundVCPU /\ FLess(Frac(1, 100), rate.v) THEN SetVCPU(acc, rate.v)
         ELSE IF ~acc.foundMemory /\ FLess(rate.v, Frac(1, 100)) THEN SetMemory(acc, rate.v)
         ELSE acc
    ELSE acc

\* a variant that tests the duration only
OfferingSkipped_AnyRegion(offering, regionCode, o) ==
    offering.hasOffering /\ offering.DurationSeconds # DurationSeconds(o.Duration)

\* the offering is of another duration or region
OfferingSkipped(offering, regionCode, o) ==
    \/ offering.hasOffering /\ offering.DurationSeconds # DurationSeconds(o.Duration)
    \/ regionCode # "" /\ regionCode # o.Region

\* first pass: the offering is passed over (continue of the outer loop)
FirstPassSkipped(offering, usageType, isARM, o) ==
    \/ OfferingSkipped(offering, getRegionCodeFromLocation(offering.Properties), o)
    \/ offering.hasUsageType /\ UsageTypeExcluded(usageType, isARM)

\* first pass: the prices after the usage types of one offering, before its
\* unit is looked at
ClassifyOffering(acc, offering, usageType, rate, isARM, o) ==
    IF FirstPassSkipped(offering, usageType, isARM, o) THEN acc
    ELSE SetByProperties(IF offering.hasUsageType
                         THEN SetByUsageType(acc, usageType, offering.hasRate, rate)
                         ELSE acc,
                         offering.Properties, offering.hasRate, rate, isARM)

\* first pass: one offering
MatchOffering(acc, offering, usageType, rate, isARM, o) ==
    IF FirstPassSkipped(offering, usageType, isARM, o) THEN acc
    ELSE SetByUnit(ClassifyOffering(acc, offering, usageType, rate, isARM, o),
                   ToLower(offering.Unit), offering.hasRate, rate)

\* first pass over the offerings
RECURSIVE MatchOfferings(_, _, _)
MatchOfferings(acc, searchResults, o) ==
    IF Len(searchResults) = 0 THEN acc
    ELSE MatchOfferings(MatchOffering(acc, searchResults[1], ToLower(searchResults[1].UsageType),
                                      ParseFloat(searchResults[1].Rate), o.Architecture = "arm", o),
                        Tail(searchResults), o)

\* second pass: the rate taken for what a usage type names and is missing
FallbackByUsageType(acc, usageType, rate) ==
    IF IsCPUUsage(usageType) /\ ~acc.foundVCPU THEN SetVCPU(acc, rate)
    ELSE IF IsMemoryUsage(usageType) /\ ~acc.foundMemory THEN SetMemory(acc, rate)
    ELSE acc

\* second pass: the properties of the offering
RECURSIVE FallbackByProperties(_, _, _)
FallbackByProperties(acc, properties, rate) ==
    IF Len(properties) = 0 THEN acc
    ELSE FallbackByProperties(IF properties[1].Name = "usagetype"
                              THEN FallbackByUsageType(acc, ToLower(properties[1].Value), rate)
                              ELSE acc,
                              Tail(properties), rate)

\* second pass: with neither price found, the rate taken by its value
FallbackByRate(named, rate) ==
    IF ~named.foundVCPU /\ ~named.foundMemory
    THEN IF FLess(Frac(1, 100), rate) THEN SetVCPU(named, rate) ELSE SetMemory(named, rate)
    ELSE named

\* second pass: the offering is passed over
SecondPassSkipped(offering, rate, o) ==
    \/ OfferingSkipped(offering, getRegionCodeFromLocation(offering.Properties), o)
    \/ ~offering.hasRate \/ ~rate.ok

\* second pass: the prices after the usage types of one offering, before its
\* rate is looked at
FallbackClassify(acc, offering, rate, o) ==
    IF SecondPassSkipped(offering, rate, o) THEN acc
    ELSE FallbackByProperties(IF offering.hasUsageType
                              THEN FallbackByUsageType(acc, ToLower(offering.UsageType), rate.v)
                              ELSE acc,
                              offering.Properties, rate.v)

\* second pass: one offering
FallbackOffering(acc, offering, rate, o) ==
    IF SecondPassSkipped(offering, rate, o) THEN acc
    ELSE FallbackByRate(FallbackClassify(acc, offering, rate, o), rate.v)

\* second pass over the offerings
RECURSIVE FallbackOfferings(_, _, _)
FallbackOfferings(acc, searchResults, o) ==
    IF Len(searchResults) = 0 THEN acc
    ELSE FallbackOfferings(FallbackOffering(acc, searchResults[1],
                                            ParseFloat(searchResults[1].Rate), o),
                           Tail(searchResults), o)

\* the second pass is made when the first left a price missing
CompleteRates(first, searchResults, o) ==
    IF ~first.foundVCPU \/ ~first.foundMemory THEN FallbackOfferings(first, searchResults, o)
    ELSE first

\* a variant that returns the prices with the memory price missing
FoundRates_MemoryOptional(found) ==
    IF ~found.foundVCPU THEN [kind |-> "err", v |-> found, msg |-> "vCPU Savings Plan price not found"]
    ELSE [kind |-> "ok", v |-> found, msg |-> ""]

\* the prices when both are found, or the error of the one missing
FoundRates(found) ==
    IF ~found.foundVCPU THEN [kind |-> "err", v |-> found, msg |-> "vCPU Savings Plan price not found"]
    ELSE IF ~found.foundMemory
    THEN [kind |-> "err", v |-> found, msg |-> "memory Savings Plan price not found"]
    ELSE [kind |-> "ok", v |-> found, msg |-> ""]

\* the Savings Plan prices found in the offerings
FargateMatchedRates(searchResults, o) ==
    FoundRates(CompleteRates(MatchOfferings(NoneFound, searchResults, o), searchResults, o))

\* offering rates the Savings Plans service answers the fargate command with
FargateRates ==
    {OfferingRate(DurationSeconds(1), <<Property("regionCode", "ap-northeast-1")>>,
                  "Fargate-vCPU-Hours:perCPU", "0.03", "Hrs"),
     OfferingRate(DurationSeconds(1), <<Property("regionCode", "ap-northeast-1")>>,
                  "Fargate-GB-Hours", "0.007", "Hrs"),
     OfferingRate(DurationSeconds(3), <<Property("usagetype", "Fargate-ARM-vCPU-Hours:perCPU")>>,
                  "Fargate-ARM-vCPU-Hours:perCPU", "0.024", "Hrs"),
     [OfferingRate(0, <<>>, "", "0.02", "Hours") EXCEPT !.hasOffering = FALSE, !.hasUsageType = FALSE]}
FargateRateAnswers == {Failed} \cup {Answer(l) : l \in SeqsUpTo(FargateRates, MaxRates)}

\* getComputeSavingsPlanPrice of the fargate command, with its second query
\* when no-upfront finds nothing
FargateGetSavingsPlanPrice ==
    /\ cmd = "fargate" /\ pc = "plan"
    /\ LET paymentOptionStr == IF opts.PaymentOption = "" THEN "no-upfront" ELSE opts.PaymentOption
           awsPaymentOption == convertPaymentOptionToAWSFormat(paymentOptionStr)
           first  == SavingsPlanQuery("Fargate", "AmazonECS", awsPaymentOption.v, [region |-> opts.Region])
           retry  == SavingsPlanQuery("Fargate", "AmazonECS", "All Upfront", [region |-> opts.Region])
       IN  IF awsPaymentOption.kind = "err"
           THEN /\ Return("failed to get Savings Plan price: " \o awsPaymentOption.msg)
                /\ UNCHANGED <<local, calls>>
           ELSE \E answer \in FargateRateAnswers :
                \E second \in (IF ~answer.error /\ Len(answer.list) = 0 /\ paymentOptionStr = "no-upfront"
                               THEN FargateRateAnswers ELSE {answer}) :
                  LET retried == ~answer.error /\ Len(answer.list) = 0 /\ paymentOptionStr = "no-upfront"
                      result  == IF retried THEN second ELSE answer
                      price   == FargateMatchedRates(result.list, opts)
                  IN  /\ calls' = IF retried THEN calls \o <<first, retry>> ELSE Append(calls, first)
                      /\ IF result.error
                         THEN /\ Return("failed to get Savings Plan price: failed to describe savings plans offering rates"
                                        \o (IF retried THEN " (all-upfront)" ELSE ""))
                              /\ local' = [local EXCEPT !.response = Response(result)]
                         ELSE IF Len(result.list) = 0
                         THEN /\ Return("failed to get Savings Plan price: no savings plans offering rates found for payment option: "
                                        \o paymentOptionStr)
                              /\ local' = [local EXCEPT !.response = Response(result)]
                         ELSE IF price.kind = "err"
                         THEN /\ Return("failed to get Savings Plan price: " \o price.msg)
                              /\ local' = [local EXCEPT !.response = Response(result),
                                                        !.match = [@ EXCEPT
                                                            !.foundVCPU = price.v.foundVCPU,
                                                            !.foundMemory = price.v.foundMemory]]
                         ELSE /\ pc' = "render" /\ err' = err
                              /\ local' = [local EXCEPT !.response = Response(result),
                                              !.match = [@ EXCEPT
                                                  !.foundVCPU = price.v.foundVCPU,
                                                  !.foundMemory = price.v.foundMemory],
                                              !.spPricing =
                                              [VCPUSPPrice |-> price.v.vcpuPrice,
                                               MemorySPPrice |-> price.v.memoryPrice]]
    /\ UNCHANGED <<cmd, opts, table, stdout>>

\* a variant that divides the memory by 1000
MemoryGB_Decimal(memoryMBPerHour) == Frac(memoryMBPerHour, 1000)

\* the memory flag, in MB, as GB
MemoryGB(memoryMBPerHour) == Frac(memoryMBPerHour, 1024)

\* the vCPU flag, in millicores, as vCPU
VCPUCount(vCPUMillicoresPerHour) == Frac(vCPUMillicoresPerHour, 1000)

\* the monthly cost (720 hours) of the tasks at a vCPU and a memory rate
CostPerMonth(taskCount, vcpuCount, memoryGB, vcpuRate, memoryRate) ==
    FAdd(FMul(FMul(FMul(R(taskCount), vcpuCount), R(hoursPerMonth)), vcpuRate),
         FMul(FMul(FMul(R(taskCount), memoryGB), R(hoursPerMonth)), memoryRate))

\* Run from the validation of the duration on: the costs are computed and
\* written
FargateRender ==
    /\ cmd = "fargate" /\ pc = "render"
    /\ IF opts.Duration # 1 /\ opts.Duration # 3
       THEN /\ Return("duration must be 1 or 3 years, got: " \o ToString(opts.Duration))
            /\ UNCHANGED <<local, stdout>>
       ELSE LET vcpuCount == VCPUCount(opts.VCPUMillicoresPerHour)
                memoryGB  == MemoryGB(opts.MemoryMBPerHour)
                currentCostPerMonth == CostPerMonth(opts.TaskCount, vcpuCount, memoryGB,
                                                    local.onDemandPricing.VCPUOnDemandPrice,
                                                    local.onDemandPricing.MemoryOnDemandPrice)
                spCostPerMonth      == CostPerMonth(opts.TaskCount, vcpuCount, memoryGB,
                                                    local.spPricing.VCPUSPPrice,
                                                    local.spPricing.MemorySPPrice)
                hourlySPCost        == FDiv(spCostPerMonth, R(hoursPerMonth))
                hourlyCommitment    == hourlySPCost
                spPurchaseAmount    == FMul(FMul(FMul(hourlyCommitment, R(hoursPerMonth)), R(12)),
                                            R(opts.Duration))
                savingsAmount       == FSub(currentCostPerMonth, spCostPerMonth)
                savingsRate         == FMul(FDiv(savingsAmount, currentCostPerMonth), R(100))
            IN  /\ stdout' = renderCSV(stdout, hourlyCommitment, spPurchaseAmount, currentCostPerMonth,
                                       spCostPerMonth, savingsAmount, savingsRate, opts.NoHeader)
                /\ local' = [local EXCEPT !.hourlyCommitment = hourlyCommitment,
                                          !.spPurchaseAmount = spPurchaseAmount,
                                          !.currentCostPerMonth = currentCostPerMonth,
                                          !.spCostPerMonth = spCostPerMonth,
                                          !.savingsAmount = savingsAmount,
                                          !.savingsRate = savingsRate]
                /\ pc' = "done" /\ err' = ""
    /\ UNCHANGED <<cmd, opts, table, calls>>

(***************************************************************************)
(* The Savings Plans commands on enumerated options                        *)
(***************************************************************************)
SPRegions == {"ap-northeast-1", "ap-northeast-9"}
SPPaymentOptions == {"no-upfront", "all-upfront", "upfront"}
EC2Options ==
    [Region : SPRegions, InstanceType : {"m5.large"}, Count : {10}, Duration : {1, 2, 3},
     PaymentOption : SPPaymentOptions, NoHeader : BOOLEAN]
FargateOptions ==
    [Region : SPRegions, MemoryMBPerHour : {4096}, VCPUMillicoresPerHour : {2000},
     TaskCount : {10}, Duration : {1, 2, 3}, Architecture : {"x86_64", "arm"},
     PaymentOption : SPPaymentOptions, NoHeader : BOOLEAN]

\* the flags of the offer matching: found of the ec2 command, foundVCPU and
\* foundMemory of the fargate command
NoMatch == [found |-> FALSE, foundVCPU |-> FALSE, foundMemory |-> FALSE]

SPLocal ==
    [response |-> Response(NoAnswer), match |-> NoMatch, entry |-> NoEntry, vcpuEntry |-> NoEntry, memoryEntry |-> NoEntry,
     onDemandPrice |-> R(0), spPrice |-> R(0),
     onDemandPricing |-> [VCPUOnDemandPrice |-> R(0), MemoryOnDemandPrice |-> R(0)],
     spPricing |-> [VCPUSPPrice |-> R(0), MemorySPPrice |-> R(0)],
     hourlyCommitment |-> R(0), spPurchaseAmount |-> R(0), currentCostPerMonth |-> R(0),
     spCostPerMonth |-> R(0), savingsAmount |-> R(0), savingsRate |-> R(0)]

InitSP ==
    /\ pc = "start"
    /\ \/ cmd = "ec2" /\ opts \in EC2Options
       \/ cmd = "fargate" /\ opts \in FargateOptions
    /\ local = SPLocal
    /\ table = <<>> /\ stdout = <<>> /\ calls = <<>> /\ err = ""

NextSP ==
    \/ EC2GetOnDemandPrice
    \/ EC2GetSavingsPlanPrice
    \/ EC2Render
    \/ FargateGetVCPUPrice
    \/ FargateGetMemoryPrice
    \/ FargateGetSavingsPlanPrice
    \/ FargateRender

SpecSP == InitSP /\ [][NextSP]_vars

TypeOKSP == pc \in {"start", "memory", "plan", "render", "done"}

(***************************************************************************)
(* All commands                                                            *)
(***************************************************************************)
InitCmd == InitRI \/ InitSP

NextCmd ==
    \/ RDSGetOnDemandPrice
    \/ RDSRow
    \/ RDSRender
    \/ ElastiCacheGetOnDemandPrice
    \/ ElastiCacheRow
    \/ ElastiCacheRender
    \/ TotalParse
    \/ TotalOnDemandPrice
    \/ TotalPrice
    \/ TotalRender
    \/ EC2GetOnDemandPrice
    \/ EC2GetSavingsPlanPrice
    \/ EC2Render
    \/ FargateGetVCPUPrice
    \/ FargateGetMemoryPrice
    \/ FargateGetSavingsPlanPrice
    \/ FargateRender

SpecCmd == InitCmd /\ [][NextCmd]_vars

(***************************************************************************)
(* generate command: the output formats (GenerateCommand.formatOutput)     *)
(***************************************************************************)
\* longest list of instances formatted
MaxGenInstances == 2

\* %t
FormatBool(b) == IF b THEN "true" ELSE "false"

\* the argument of one instance: "" for a service type that has none
InstanceArg(instance) ==
    IF instance.ServiceType = "rds"
    THEN "--rds=" \o TrimPrefix(instance.InstanceType, "db.") \o ":" \o ToString(instance.Count)
             \o ":" \o instance.Description \o ":" \o FormatBool(instance.MultiAz)
    ELSE IF instance.ServiceType = "elasticache"
    THEN "--elasticache=" \o TrimPrefix(instance.InstanceType, "cache.") \o ":"
             \o ToString(instance.Count) \o ":" \o instance.Description
    ELSE ""

\* the loop of formatArgsOutput: the arguments appended to rdsArgs and to
\* elasticacheArgs
RECURSIVE AppendArgs(_, _)
AppendArgs(args, instances) ==
    IF Len(instances) = 0 THEN args
    ELSE LET instance == instances[1]
         IN  AppendArgs(
                 IF instance.ServiceType = "rds"
                 THEN [args EXCEPT !.rdsArgs = Append(@, InstanceArg(instance))]
                 ELSE IF instance.ServiceType = "elasticache"
                 THEN [args EXCEPT !.elasticacheArgs = Append(@, InstanceArg(instance))]
                 ELSE args,
                 Tail(instances))

\* a variant that keeps the arguments in the order of the instances
formatArgsOutput_InOrder(instances) ==
    Join([n \in DOMAIN instances |-> InstanceArg(instances[n])], " ")

\* formatArgsOutput: the arguments only
formatArgsOutput(instances) ==
    LET args == AppendArgs([rdsArgs |-> <<>>, elasticacheArgs |-> <<>>], instances)
    IN  Join(args.rdsArgs \o args.elasticacheArgs, " ")

\* formatCommandOutput: the command line
formatCommandOutput(o, instances) ==
    "awsri total " \o formatArgsOutput(instances) \o " --duration=" \o ToString(o.Duration)
        \o " --offering-type=\"" \o o.OfferingType \o "\""

\* one element of "instances" as json.MarshalIndent writes it, multi_az
\* omitted when false
OutputInstance(instance) ==
    "    {\n      \"service_type\": \"" \o instance.ServiceType
        \o "\",\n      \"instance_type\": \""
        \o (IF instance.ServiceType = "rds" THEN TrimPrefix(instance.InstanceType, "db.")
            ELSE IF instance.ServiceType = "elasticache"
            THEN TrimPrefix(instance.InstanceType, "cache.")
            ELSE instance.InstanceType)
        \o "\",\n      \"count\": " \o ToString(instance.Count)
        \o ",\n      \"description\": \"" \o instance.Description \o "\""
        \o (IF instance.MultiAz THEN ",\n      \"multi_az\": true" ELSE "")
        \o "\n    }"

\* formatJSONOutput: the JSON text
formatJSONOutput(o, instances) ==
    "{\n  \"instances\": ["
        \o (IF Len(instances) = 0 THEN "]"
            ELSE "\n" \o Join([n \in DOMAIN instances |-> OutputInstance(instances[n])], ",\n")
                     \o "\n  ]")
        \o ",\n  \"duration\": " \o ToString(o.Duration)
        \o ",\n  \"offering_type\": \"" \o o.OfferingType \o "\"\n}"

\* formatOutput: the output in the format asked for
formatOutput(o, instances, format) ==
    CASE format = "command" -> [kind |-> "ok", v |-> formatCommandOutput(o, instances), msg |-> ""]
      [] format = "args" -> [kind |-> "ok", v |-> formatArgsOutput(instances), msg |-> ""]
      [] format = "json" -> [kind |-> "ok", v |-> formatJSONOutput(o, instances), msg |-> ""]
      [] OTHER -> [kind |-> "err", v |-> "", msg |-> "unsupported output format: " \o format]

(***************************************************************************)
(* The helpers applied to enumerated arguments                             *)
(***************************************************************************)
UnknownRegions == {"", "xx-nowhere-1", "US East (N. Virginia)"}
UnknownLocations == {"", "Atlantis (Central)", "ap-northeast-1"}
RegionInputs == DOMAIN regionMap \cup UnknownRegions
LocationInputs == DOMAIN locationMap \cup UnknownLocations

\* monthly baselines and effective costs, in USD
SavingsInputs == {<<R(b), R(e)>> : b \in {0, 134, 100}, e \in {0, 64, 768, 1608}}

DimUniverse ==
    {Dim("Hrs", "0.05"), Dim("hour", "0.2"), Dim("second", "0.00001"),
     Dim("Hrs", "abc"), DimNoUSD, DimNoPPU}
TermUniverse == {Term(d) : d \in SeqsUpTo(DimUniverse, MaxDims)} \cup {TermNoDims}
DocUniverse ==
    {Doc(t, NoAttrs) : t \in SeqsUpTo(TermUniverse, MaxTerms)}
        \cup {DocInvalid, DocNoTerms, DocNoOnDemand}

\* instances the generate command finds, and the calls of formatOutput
GenInstances ==
    {InstanceInfo("rds", "db.m5.large", 2, "postgresql", FALSE),
     InstanceInfo("rds", "r6g.large", 1, "mysql", TRUE),
     InstanceInfo("rds", "db.r6g.large", 1, "mysql", TRUE),
     InstanceInfo("elasticache", "cache.m5.large", 3, "redis", FALSE),
     InstanceInfo("elasticache", "t4g.micro", 1, "valkey", FALSE)}
FormatInputs ==
    [instances : SeqsUpTo(GenInstances, MaxGenInstances),
     format : {"command", "args", "json", "yaml", ""},
     Duration : {1, 3}, OfferingType : {"Partial Upfront"}]

\* longest list of offering rates matched one by one
MaxCandidates == 3

\* offering rates of Windows tasks
WindowsRates ==
    {OfferingRate(DurationSeconds(1), <<Property("regionCode", "ap-northeast-1")>>,
                  "Fargate-Windows-vCPU-Hours:perCPU", "0.09", "Hrs"),
     [OfferingRate(DurationSeconds(1), <<Property("usagetype", "Fargate-Windows-GB-Hours")>>,
                   "", "0.008", "Hrs") EXCEPT !.hasUsageType = FALSE]}
\* the non-empty lists getComputeSavingsPlanPrice matches
MatchInputs ==
    [searchResults : SeqsUpTo(FargateRates \cup WindowsRates, MaxCandidates) \ {<<>>},
     Duration : {1, 3}, Region : {"ap-northeast-1"}, Architecture : {"x86_64", "arm"}]

\* offerings of two descriptions and both deployments, and the calls of
\* getOffering
OfferingInputs ==
    [offerings : SeqsUpTo({DBOffering("postgresql", TRUE, R(781), <<Frac(89, 1000)>>),
                           DBOffering("postgresql", TRUE, R(500), <<Frac(1, 10)>>),
                           DBOffering("postgresql", FALSE, R(1517), <<R(0)>>),
                           DBOffering("mysql", TRUE, R(700), <<Frac(8, 100)>>),
                           DBOffering("mysql", FALSE, R(350), <<Frac(4, 100)>>)}, MaxOfferings),
     productDescription : {"postgresql", "mysql"}, multiAz : BOOLEAN]

NoLocal == [ret |-> "", ret2 |-> ""]
\* the loop variables of getComputeSavingsPlanPrice; vcpuAt and memoryAt
\* record the offering (pass and index) at which each price was set, vcpuBy
\* and memoryBy whether a usage type or the value of the rate set it
MatchLocal ==
    [acc |-> NoneFound, i |-> 1, vcpuAt |-> <<0, 0>>, memoryAt |-> <<0, 0>>,
     vcpuBy |-> "", memoryBy |-> "", ret |-> ""]

InitPure ==
    /\ pc = "call"
    /\ \/ cmd = "mapRegionToLocation" /\ opts \in RegionInputs
       \/ cmd = "mapLocationToRegion" /\ opts \in LocationInputs
       \/ cmd = "CalculateSavings" /\ opts \in SavingsInputs
       \/ cmd = "extractOnDemandPriceFromResult" /\ opts \in DocUniverse
       \/ cmd = "extractPriceFromResult" /\ opts \in SeqsUpTo(DocUniverse, 1)
       \/ cmd = "formatOutput" /\ opts \in FormatInputs
       \/ cmd = "getOffering" /\ opts \in OfferingInputs
       \/ cmd = "getComputeSavingsPlanPrice" /\ opts \in MatchInputs
    /\ local = IF cmd = "getComputeSavingsPlanPrice" THEN MatchLocal ELSE NoLocal
    /\ table = <<>> /\ stdout = <<>> /\ calls = <<>> /\ err = ""

\* code -> location, then the location back to a code
CallRegionToLocation ==
    /\ cmd = "mapRegionToLocation"
    /\ \/ pc = "call" /\ pc' = "returned"
          /\ local' = [local EXCEPT !.ret = mapRegionToLocation(opts)]
       \/ pc = "returned" /\ pc' = "back"
          /\ local' = [local EXCEPT !.ret2 = mapLocationToRegion(local.ret)]
    /\ UNCHANGED <<cmd, opts, table, stdout, calls, err>>

\* location -> code, then the code back to a location
CallLocationToRegion ==
    /\ cmd = "mapLocationToRegion"
    /\ \/ pc = "call" /\ pc' = "returned"
          /\ local' = [local EXCEPT !.ret = mapLocationToRegion(opts)]
       \/ pc = "returned" /\ pc' = "back"
          /\ local' = [local EXCEPT !.ret2 = mapRegionToLocation(local.ret)]
    /\ UNCHANGED <<cmd, opts, table, stdout, calls, err>>

CallCalculateSavings ==
    /\ cmd = "CalculateSavings" /\ pc = "call" /\ pc' = "returned"
    /\ local' = [local EXCEPT !.ret = CalculateSavings(opts[1], opts[2])]
    /\ UNCHANGED <<cmd, opts, table, stdout, calls, err>>

\* the same document parsed twice, each parse with its own map iteration
CallExtractOnDemandPrice ==
    /\ cmd = "extractOnDemandPriceFromResult"
    /\ \E order \in IterOrders(opts) :
        \/ pc = "call" /\ pc' = "returned"
           /\ local' = [local EXCEPT !.ret = extractOnDemandPriceFromResult(opts, order)]
        \/ pc = "returned" /\ pc' = "back"
           /\ local' = [local EXCEPT !.ret2 = extractOnDemandPriceFromResult(opts, order)]
    /\ UNCHANGED <<cmd, opts, table, stdout, calls, err>>

CallExtractPrice ==
    /\ cmd = "extractPriceFromResult"
    /\ \E order \in (IF Len(opts) > 0 THEN IterOrders(opts[1]) ELSE {[terms |-> <<>>, dims |-> <<>>]}) :
        \/ pc = "call" /\ pc' = "returned"
           /\ local' = [local EXCEPT !.ret = extractPriceFromResult(opts, order)]
        \/ pc = "returned" /\ pc' = "back"
           /\ local' = [local EXCEPT !.ret2 = extractPriceFromResult(opts, order)]
    /\ UNCHANGED <<cmd, opts, table, stdout, calls, err>>

CallFormatOutput ==
    /\ cmd = "formatOutput" /\ pc = "call" /\ pc' = "returned"
    /\ local' = [local EXCEPT !.ret = formatOutput(opts, opts.instances, opts.format)]
    /\ UNCHANGED <<cmd, opts, table, stdout, calls, err>>

\* the values of a repeated flag on a command line of flag=value words
FlagValues(line, flag) ==
    LET words == SelectSeq(Split(line, " "), LAMBDA w : HasPrefix(w, flag))
    IN  [n \in DOMAIN words |-> TrimPrefix(words[n], flag)]

\* the arguments the generate command wrote, parsed by the total command
CallParseGenerated ==
    /\ cmd = "formatOutput" /\ pc = "returned" /\ opts.format = "args" /\ pc' = "back"
    /\ local' = [local EXCEPT !.ret2 =
                    parseInstancesInfo([RDSInstances |-> FlagValues(local.ret.v, "--rds="),
                                        ElasticacheInstances |->
                                            FlagValues(local.ret.v, "--elasticache=")])]
    /\ UNCHANGED <<cmd, opts, table, stdout, calls, err>>

CallGetOffering ==
    /\ cmd = "getOffering" /\ pc = "call" /\ pc' = "returned"
    /\ local' = [local EXCEPT !.ret = getOffering(opts.offerings, opts.productDescription,
                                                   opts.multiAz)]
    /\ UNCHANGED <<cmd, opts, table, stdout, calls, err>>

\* the loop variables after one offering of pass number pass: classified
\* are the prices after its usage types, acc the prices after all of it
Matched(l, pass, classified, acc) ==
    [l EXCEPT !.acc = acc, !.i = @ + 1,
              !.vcpuAt = IF ~l.acc.foundVCPU /\ acc.foundVCPU THEN <<pass, l.i>> ELSE @,
              !.memoryAt = IF ~l.acc.foundMemory /\ acc.foundMemory THEN <<pass, l.i>> ELSE @,
              !.vcpuBy = IF ~l.acc.foundVCPU /\ acc.foundVCPU
                         THEN (IF classified.foundVCPU THEN "usagetype" ELSE "rate") ELSE @,
              !.memoryBy = IF ~l.acc.foundMemory /\ acc.foundMemory
                           THEN (IF classified.foundMemory THEN "usagetype" ELSE "rate") ELSE @]

\* first loop of getComputeSavingsPlanPrice: one offering
FirstPassOffering ==
    /\ cmd = "getComputeSavingsPlanPrice" /\ pc = "call"
    /\ local.i <= Len(opts.searchResults)
    /\ \E offering \in {opts.searchResults[local.i]} :
         local' = Matched(local, 1,
                          ClassifyOffering(local.acc, offering, ToLower(offering.UsageType),
                                           ParseFloat(offering.Rate), opts.Architecture = "arm", opts),
                          MatchOffering(local.acc, offering, ToLower(offering.UsageType),
                                        ParseFloat(offering.Rate), opts.Architecture = "arm", opts))
    /\ UNCHANGED <<cmd, pc, opts, table, stdout, calls, err>>

\* after the first loop: the second loop is entered when a price is missing
FirstPassEnd ==
    /\ cmd = "getComputeSavingsPlanPrice" /\ pc = "call"
    /\ local.i > Len(opts.searchResults)
    /\ IF ~local.acc.foundVCPU \/ ~local.acc.foundMemory
       THEN pc' = "second" /\ local' = [local EXCEPT !.i = 1]
       ELSE pc' = "returned" /\ local' = [local EXCEPT !.ret = FoundRates(local.acc)]
    /\ UNCHANGED <<cmd, opts, table, stdout, calls, err>>

\* second loop of getComputeSavingsPlanPrice: one offering
SecondPassOffering ==
    /\ cmd = "getComputeSavingsPlanPrice" /\ pc = "second"
    /\ local.i <= Len(opts.searchResults)
    /\ \E offering \in {opts.searchResults[local.i]} :
         local' = Matched(local, 2,
                          FallbackClassify(local.acc, offering, ParseFloat(offering.Rate), opts),
                          FallbackOffering(local.acc, offering, ParseFloat(offering.Rate), opts))
    /\ UNCHANGED <<cmd, pc, opts, table, stdout, calls, err>>

\* after the second loop: the prices found, or the error
SecondPassEnd ==
    /\ cmd = "getComputeSavingsPlanPrice" /\ pc = "second"
    /\ local.i > Len(opts.searchResults)
    /\ pc' = "returned" /\ local' = [local EXCEPT !.ret = FoundRates(local.acc)]
    /\ UNCHANGED <<cmd, opts, table, stdout, calls, err>>

NextPure ==
    \/ CallRegionToLocation
    \/ CallLocationToRegion
    \/ CallCalculateSavings
    \/ CallExtractOnDemandPrice
    \/ CallExtractPrice
    \/ CallFormatOutput
    \/ CallParseGenerated
    \/ CallGetOffering
    \/ FirstPassOffering
    \/ FirstPassEnd
    \/ SecondPassOffering
    \/ SecondPassEnd

SpecPure == InitPure /\ [][NextPure]_vars

(***************************************************************************)
(* Offer matching of the Savings Plans commands on enumerated lists        *)
(***************************************************************************)
\* Fargate offering rates of ARM memory, of another region by code and by
\* location, and of a region the location table does not hold
OtherFargateRates ==
    {OfferingRate(DurationSeconds(1), <<>>, "Fargate-ARM-GB-Hours", "0.006", "Hrs"),
     OfferingRate(DurationSeconds(1), <<Property("regionCode", "us-east-1")>>,
                  "Fargate-vCPU-Hours:perCPU", "0.05", "Hrs"),
     OfferingRate(DurationSeconds(1), <<Property("location", "US East (N. Virginia)")>>,
                  "Fargate-GB-Hours", "0.005", "Hrs"),
     OfferingRate(DurationSeconds(1), <<Property("location", "Asia Pacific (Hyderabad)")>>,
                  "Fargate-GB-Hours", "0.004", "Hrs")}
FargateMatchInputs ==
    [searchResults : SeqsUpTo(FargateRates \cup OtherFargateRates, MaxCandidates) \ {<<>>},
     Duration : {1, 3}, Region : {"ap-northeast-1"}, Architecture : {"x86_64", "arm"}]

\* EC2 offering rates of another region by code and by an unlisted location,
\* and one without plan data
OtherEC2Rates ==
    {OfferingRate(DurationSeconds(1), <<Property("regionCode", "us-east-1")>>,
                  "USE1-BoxUsage:m5.large", "0.07", "Hrs"),
     OfferingRate(DurationSeconds(1), <<Property("location", "Asia Pacific (Hyderabad)")>>,
                  "APS2-BoxUsage:m5.large", "0.05", "Hrs"),
     [OfferingRate(0, <<>>, "APN1-BoxUsage:m5.large", "0.09", "Hrs") EXCEPT !.hasOffering = FALSE]}
EC2MatchInputs ==
    [searchResults : SeqsUpTo(EC2Rates \cup OtherEC2Rates, MaxCandidates) \ {<<>>},
     Duration : {1, 3}, Region : {"ap-northeast-1"}, InstanceType : {"m5.large"}]

\* the result of the EC2 matching and the index of the offering it broke at
EC2MatchLocal == [ret |-> "", at |-> 0]

\* price lists of the catalog with entries of either architecture, with and
\* without the processorArchitecture attribute
OtherCatalogDocs ==
    {SimpleDoc("hour", "0.04", [usagetype |-> "Fargate-ARM-vCPU-Hours:perCPU", processorArchitecture |-> "ARM"]),
     SimpleDoc("hour", "0.009", [usagetype |-> "Fargate-GB-Hours", processorArchitecture |-> "x86_64"]),
     DocInvalid}
OnDemandMatchInputs ==
    [priceList : SeqsUpTo(SPCatalogDocs \cup OtherCatalogDocs, MaxPriceList) \ {<<>>},
     processorArchitecture : {"x86_64", "ARM"}]
OnDemandMatchLocal == [ret |-> DocInvalid]

InitMatch ==
    /\ pc = "call"
    /\ \/ cmd = "getComputeSavingsPlanPrice" /\ opts \in FargateMatchInputs /\ local = MatchLocal
       \/ cmd = "EC2.getComputeSavingsPlanPrice" /\ opts \in EC2MatchInputs /\ local = EC2MatchLocal
       \/ cmd = "getFargateOnDemandPriceByType" /\ opts \in OnDemandMatchInputs
             /\ local = OnDemandMatchLocal
    /\ table = <<>> /\ stdout = <<>> /\ calls = <<>> /\ err = ""

\* the loop of EC2Command.getComputeSavingsPlanPrice over a non-empty list
EC2Match ==
    /\ cmd = "EC2.getComputeSavingsPlanPrice" /\ pc = "call" /\ pc' = "returned"
    /\ \E hits \in {{n \in DOMAIN opts.searchResults :
                        EC2OfferingRate(opts.searchResults[n], opts).kind # "skip"}} :
         local' = [ret |-> EC2MatchedRate(opts.searchResults, opts),
                   at |-> IF hits = {} THEN 0 ELSE CHOOSE n \in hits : \A m \in hits : n <= m]
    /\ UNCHANGED <<cmd, opts, table, stdout, calls, err>>

\* the entry getFargateOnDemandPriceByType extracts the price of a non-empty
\* price list from
OnDemandMatch ==
    /\ cmd = "getFargateOnDemandPriceByType" /\ pc = "call" /\ pc' = "returned"
    /\ local' = [ret |-> MatchedPrice(opts.priceList, opts.processorArchitecture)]
    /\ UNCHANGED <<cmd, opts, table, stdout, calls, err>>

NextMatch ==
    \/ FirstPassOffering
    \/ FirstPassEnd
    \/ SecondPassOffering
    \/ SecondPassEnd
    \/ EC2Match
    \/ OnDemandMatch

SpecMatch == InitMatch /\ [][NextMatch]_vars

TypeOKPure == pc \in {"call", "second", "returned", "back"}
(***************************************************************************)
(* Properties of the helpers                                               *)
(***************************************************************************)
SavingsReturned == cmd = "CalculateSavings" /\ pc = "returned"

\* C3 as stated: CalculateSavings(b, e) returns amount b - e and percent
\* 100 * (b - e) / b
C3_SavingsOfSamePeriod ==
    SavingsReturned =>
        LET b == opts[1][1]
            e == opts[2][1]
        IN  /\ local.ret[1] = R(b - e)
            /\ b # 0 => local.ret[2] = Frac(100 * (b - e), b)

\* C3 amended: CalculateSavings(b, e) takes the monthly baseline b and the
\* effective yearly cost e; it returns amount 12b - e and, for b # 0, percent
\* 100 * (12b - e) / 12b; for b = 134 and e = 12 * 64 that is 840 and 52.2
C3_SavingsYearly ==
    SavingsReturned =>
        LET b == opts[1][1]
            e == opts[2][1]
        IN  /\ local.ret[1] = R(12 * b - e)
            /\ b # 0 => local.ret[2] = Frac(100 * (12 * b - e), 12 * b)
            /\ (b = 134 /\ e = 768) =>
                   local.ret[1] = R(840) /\ RoundTo(local.ret[2], 1) = 522

C3_Witness ==
    /\ SavingsReturned
    /\ opts = <<R(134), R(768)>>
    /\ local.ret[1] = R(840)

\* C5: translating a code of the table to its location and back gives the
\* code, and translating a location of the table to its code and back gives
\* the location
C5_RoundTrip ==
    /\ (cmd = "mapRegionToLocation" /\ pc = "back" /\ opts \in DOMAIN regionMap)
           => (local.ret \in DOMAIN locationMap /\ local.ret2 = opts)
    /\ (cmd = "mapLocationToRegion" /\ pc = "back" /\ opts \in DOMAIN locationMap)
           => (local.ret \in DOMAIN regionMap /\ local.ret2 = opts)

C5_Witness ==
    /\ cmd = "mapRegionToLocation" /\ pc = "back"
    /\ opts = "eu-south-2"
    /\ local.ret = "EU (Spain)"
    /\ local.ret2 = "eu-south-2"

\* C6: two parses of the same price document give the same rate
C6_ParseTwiceSameRate ==
    (cmd \in {"extractOnDemandPriceFromResult", "extractPriceFromResult"} /\ pc = "back")
        => local.ret2 = local.ret

DataRows(t) == {n \in DOMAIN t : t[n] # SeparatorRow}
SeparatorRows(t) == {n \in DOMAIN t : t[n] = SeparatorRow}
ScenarioA ==
    /\ cmd = "rds"
    /\ opts = [DbInstanceClass |-> "db.t4g.large", ProductDescription |-> "mysql", MultiAz |-> TRUE]

\* C1: the rds command run for db.t4g.large, mysql, Multi-AZ completes without
\* an error and has written a table of exactly 6 data rows and exactly one
\* separator row.
C1_ScenarioATable ==
    (ScenarioA /\ pc \in {"done", "crashed"}) =>
        /\ pc = "done" /\ err = ""
        /\ Cardinality(DataRows(stdout)) = 6
        /\ Cardinality(SeparatorRows(stdout)) = 1

\* the answer holds no offer for the command: no offering at all, or (rds)
\* none of the description and Multi-AZ setting asked for
NoOfferRds(o, desc, multiAz) ==
    /\ ~o.error
    /\ \A n \in DOMAIN o.list :
          ~(o.list[n].ProductDescription = desc /\ o.list[n].MultiAZ = multiAz)
NoOfferCache(o) == ~o.error /\ Len(o.list) = 0
IsNotAvailableRow(row, offeringType) ==
    /\ row[2] = Text(offeringType)
    /\ \A c \in 3..6 : row[c] = Text("N/A")

\* C9: a step of the rds or elasticache loop whose offering query finds no
\* offer adds a row that reads N/A in the upfront, monthly, effective and
\* savings columns (never a number), and a pricing step of the total command
\* whose offering query finds no offer makes the command return an error
\* without writing a result.
C9_NoOfferNoCost ==
    [][/\ (/\ cmd = "rds" /\ pc = "loop" /\ OfferingTypes[local.j] # "On-Demand"
           /\ NoOfferRds(local'.answer, opts.ProductDescription, opts.MultiAz))
          => /\ pc' \in {"loop", "render"}
             /\ Len(table') > Len(table)
             /\ IsNotAvailableRow(table'[Len(table) + 1], OfferingTypes[local.j])
       /\ (/\ cmd = "elasticache" /\ pc = "loop" /\ OfferingTypes[local.j] # "On-Demand"
           /\ NoOfferCache(local'.answer))
          => /\ pc' \in {"loop", "render"}
             /\ Len(table') > Len(table)
             /\ IsNotAvailableRow(table'[Len(table) + 1], OfferingTypes[local.j])
       /\ (/\ cmd = "total" /\ pc = "offering"
           /\ IF local.instances[local.i].ServiceType = "rds"
              THEN NoOfferRds(local'.answer, local.instances[local.i].Description,
                              local.instances[local.i].MultiAz)
              ELSE NoOfferCache(local'.answer))
          => /\ pc' = "done" /\ err' # ""
             /\ stdout' = stdout /\ table' = table
             /\ local'.result = local.result
      ]_vars

\* an rds run that has written its table, a row of it not available and
\* another reserved row priced
C9_Witness ==
    /\ cmd = "rds" /\ pc = "done" /\ err = ""
    /\ \E n \in DOMAIN stdout : IsNotAvailableRow(stdout[n], stdout[n][2].s)
    /\ \E n \in DOMAIN stdout :
          /\ stdout[n][2].s \in {"No Upfront", "Partial Upfront", "All Upfront"}
          /\ stdout[n][3].fmt = "%.1f"

(***************************************************************************)
(* The Savings Plans commands                                              *)
(***************************************************************************)
Reported == pc = "done" /\ err = ""

\* C2: a fargate run that reports has hourly commitment
\* TaskCount * (millicores/1000 * vCPU rate + MB/1024 * memory rate) and purchase
\* amount hourly commitment * 720 * 12 * Duration, and writes both; for 2 vCPU
\* and 4 GB, 10 tasks, rates 0.03 and 0.007 and 1 year they are 0.88 and 7603.2.
C2_FargateCommitment ==
    (cmd = "fargate" /\ Reported) =>
        LET cpuQty == Frac(opts.VCPUMillicoresPerHour, 1000)
            memQty == Frac(opts.MemoryMBPerHour, 1024)
            hourly == FMul(R(opts.TaskCount),
                           FAdd(FMul(cpuQty, local.spPricing.VCPUSPPrice),
                                FMul(memQty, local.spPricing.MemorySPPrice)))
            amount == FMul(hourly, R(720 * 12 * opts.Duration))
        IN  /\ local.hourlyCommitment = hourly
            /\ local.spPurchaseAmount = amount
            /\ stdout[Len(stdout)][1].a.v = hourly
            /\ stdout[Len(stdout)][2] = Fixed0(amount)
            /\ (/\ cpuQty = R(2) /\ memQty = R(4) /\ opts.TaskCount = 10 /\ opts.Duration = 1
                /\ local.spPricing = [VCPUSPPrice |-> Frac(3, 100), MemorySPPrice |-> Frac(7, 1000)])
               => /\ local.hourlyCommitment = Frac(88, 100)
                  /\ local.spPurchaseAmount = Frac(76032, 10)

\* the fargate run of scenario B has reported
C2_Witness ==
    /\ cmd = "fargate" /\ Reported
    /\ opts.VCPUMillicoresPerHour = 2000 /\ opts.MemoryMBPerHour = 4096
    /\ opts.TaskCount = 10 /\ opts.Duration = 1
    /\ local.spPricing = [VCPUSPPrice |-> Frac(3, 100), MemorySPPrice |-> Frac(7, 1000)]
    /\ local.hourlyCommitment = Frac(88, 100)

\* the raw USD rate of a price list entry of one term and one dimension, and
\* the factor its unit asks for
IsOneDimension(entry) ==
    /\ entry.valid /\ entry.hasTerms /\ entry.hasOnDemand
    /\ Len(entry.onDemand) = 1 /\ entry.onDemand[1].hasDims
    /\ Len(entry.onDemand[1].dims) = 1
    /\ entry.onDemand[1].dims[1].unit \in {"second", "hour"}
RawRate(entry) == ParseFloat(entry.onDemand[1].dims[1].usd).v
UnitFactor(entry) == IF entry.onDemand[1].dims[1].unit = "second" THEN 3600 ELSE 1

\* C4: the hourly on-demand price extracted from an entry with unit "second"
\* and raw rate r is r * 3600, from an entry with unit "hour" it is r; and the
\* monthly on-demand cost the ec2 and fargate commands report holds the factor
\* 3600 once for an entry per second and not at all for an hourly one.
C4_PerSecondOnce ==
    /\ (cmd = "ec2" /\ pc \in {"plan", "render"} /\ IsOneDimension(local.entry))
          => local.onDemandPrice = FMul(RawRate(local.entry), R(UnitFactor(local.entry)))
    /\ (cmd = "ec2" /\ Reported /\ IsOneDimension(local.entry))
          => local.currentCostPerMonth =
                FMul(FMul(R(opts.Count), RawRate(local.entry)), R(UnitFactor(local.entry) * 720))
    /\ (cmd = "fargate" /\ pc \in {"memory", "plan", "render"} /\ IsOneDimension(local.vcpuEntry))
          => local.onDemandPricing.VCPUOnDemandPrice =
                FMul(RawRate(local.vcpuEntry), R(UnitFactor(local.vcpuEntry)))
    /\ (cmd = "fargate" /\ pc \in {"plan", "render"} /\ IsOneDimension(local.memoryEntry))
          => local.onDemandPricing.MemoryOnDemandPrice =
                FMul(RawRate(local.memoryEntry), R(UnitFactor(local.memoryEntry)))
    /\ (/\ cmd = "fargate" /\ Reported
        /\ IsOneDimension(local.vcpuEntry) /\ IsOneDimension(local.memoryEntry))
          => local.currentCostPerMonth =
                FAdd(FMul(FMul(FMul(R(opts.TaskCount), Frac(opts.VCPUMillicoresPerHour, 1000)),
                               RawRate(local.vcpuEntry)),
                          R(UnitFactor(local.vcpuEntry) * 720)),
                     FMul(FMul(FMul(R(opts.TaskCount), Frac(opts.MemoryMBPerHour, 1024)),
                               RawRate(local.memoryEntry)),
                          R(UnitFactor(local.memoryEntry) * 720)))

\* a fargate run has reported on a vCPU price per second and a memory price
\* per hour
C4_Witness ==
    /\ cmd = "fargate" /\ Reported
    /\ IsOneDimension(local.vcpuEntry) /\ IsOneDimension(local.memoryEntry)
    /\ local.vcpuEntry.onDemand[1].dims[1].unit = "second"
    /\ local.memoryEntry.onDemand[1].dims[1].unit = "hour"
    /\ local.onDemandPricing.VCPUOnDemandPrice = Frac(36, 1000)

\* C8: for a region code that is not in the region table the ec2 and fargate
\* commands issue no query and end in an error.
C8_UnknownRegionNoQuery ==
    (cmd \in {"ec2", "fargate"} /\ opts.Region \notin DOMAIN regionMap) =>
        /\ calls = <<>>
        /\ pc = "done" => err # ""

\* C10: an ec2 or fargate run whose on-demand cost per month is zero ends in
\* an error; none reports a savings rate for it.
C10_ZeroBaselineIsError ==
    (cmd \in {"ec2", "fargate"} /\ Reported) => local.currentCostPerMonth # R(0)

(***************************************************************************)
(* Error handling of the commands                                          *)
(***************************************************************************)
\* the step is an on-demand lookup: a catalog query has been issued from the
\* position where the command looks the on-demand price up
IsOnDemandLookup ==
    /\ calls' # calls
    /\ \/ cmd \in {"rds", "elasticache", "ec2"} /\ pc = "start"
       \/ cmd = "total" /\ pc = "ondemand"
       \/ cmd = "fargate" /\ pc \in {"start", "memory"}

\* the catalog has answered the step's query with zero documents
NoDocuments ==
    IF cmd \in {"ec2", "fargate"} THEN local'.response = Response(NoAnswer)
    ELSE local'.answer = NoAnswer

IsWarning(line) ==
    Len(line) = 1 /\ HasPrefix(line[1].s, "Warning: failed to get on-demand price for ")

\* C11: an on-demand lookup whose catalog query returns zero documents has an
\* error outcome and no rate: the rds, elasticache, ec2 and fargate commands
\* return an error with no row and no line written and no price stored; the
\* total command, which looks the price up for reference only, writes the
\* warning of the failed lookup and computes nothing from it.
C11_NoDocumentsNoRate ==
    [][(IsOnDemandLookup /\ NoDocuments) =>
          IF cmd = "total"
          THEN /\ pc' = "offering"
               /\ stdout' = Append(stdout, stdout'[Len(stdout')])
               /\ IsWarning(stdout'[Len(stdout')])
               /\ table' = table
               /\ local'.result = local.result
          ELSE /\ pc' = "done" /\ err' # ""
               /\ table' = table /\ stdout' = stdout
               /\ cmd \in {"rds", "elasticache", "ec2"}
                     => local'.onDemandPrice = local.onDemandPrice
               /\ cmd = "fargate" => local'.onDemandPricing = local.onDemandPricing
      ]_vars

\* a fargate run whose memory lookup found no document has ended in an error
\* after its two catalog queries, with nothing written
C11_Witness ==
    /\ cmd = "fargate" /\ pc = "done" /\ err # ""
    /\ Len(calls) = 2 /\ local.response = Response(NoAnswer)
    /\ stdout = <<>>

(***************************************************************************)
(* Malformed price documents                                               *)
(***************************************************************************)
\* the document lacks something price extraction navigates to: it has no
\* term entries, a term without price dimensions, a dimension without the
\* USD field, or a USD string that is no decimal number
Malformed(doc) ==
    /\ doc.valid
    /\ \/ ~doc.hasTerms \/ ~doc.hasOnDemand
       \/ Len(doc.onDemand) = 0
       \/ \E k \in DOMAIN doc.onDemand :
             \/ ~doc.onDemand[k].hasDims
             \/ Len(doc.onDemand[k].dims) = 0
             \/ \E n \in DOMAIN doc.onDemand[k].dims :
                   \/ ~doc.onDemand[k].dims[n].hasPPU
                   \/ ~doc.onDemand[k].dims[n].hasUSD
                   \/ ~ParseFloat(doc.onDemand[k].dims[n].usd).ok

\* C12: price extraction returns an error, and no rate, for every malformed
\* document: extractOnDemandPriceFromResult for its entry, and
\* extractPriceFromResult for the first entry of its price list.
C12_MalformedIsError ==
    /\ (cmd = "extractOnDemandPriceFromResult" /\ pc = "returned" /\ Malformed(opts))
          => local.ret.kind = "err"
    /\ (cmd = "extractPriceFromResult" /\ pc = "returned" /\ Len(opts) > 0 /\ Malformed(opts[1]))
          => local.ret.kind = "err"

(***************************************************************************)
(* Validation, fallback and abort in the commands                          *)
(***************************************************************************)
ValidDurations == {1, 3}
ValidPaymentOptions == {"no-upfront", "partial-upfront", "all-upfront"}

\* C13: an ec2 or fargate run whose duration is outside {1, 3} or whose
\* payment option is outside {no-upfront, partial-upfront, all-upfront} issues
\* no catalog query and no offering-rate query, and ends in an error.
C13_InvalidParameterNoQuery ==
    (/\ cmd \in {"ec2", "fargate"}
     /\ opts.Duration \notin ValidDurations \/ opts.PaymentOption \notin ValidPaymentOptions)
        => /\ calls = <<>>
           /\ pc = "done" => err # ""

RateQueries == {n \in DOMAIN calls : calls[n].api = "savingsplans.DescribeSavingsPlansOfferingRates"}

\* getComputeSavingsPlanPrice has given up for want of candidates
GaveUpWithoutCandidates ==
    /\ pc = "done"
    /\ HasPrefix(err, "failed to get Savings Plan price: no savings plans offering rates found")

\* C14: an ec2 or fargate run that gives up because the offering-rate query
\* returned zero candidates has issued exactly two offering-rate queries, the
\* second with another payment option than the first, whatever payment option
\* was asked for; and no run issues more than two offering-rate queries.
C14_OneFallbackForEveryOption ==
    cmd \in {"ec2", "fargate"} =>
        /\ Cardinality(RateQueries) <= 2
        /\ GaveUpWithoutCandidates =>
              /\ Cardinality(RateQueries) = 2
              /\ \A m, n \in RateQueries :
                    m # n => calls[m].filters.paymentOption # calls[n].filters.paymentOption

\* the step has issued an external call and the call has failed
CallFailed ==
    /\ calls' # calls
    /\ IF cmd \in {"ec2", "fargate"} THEN local'.response.error ELSE local'.answer.error

C16_RowErrorIsNotAvailable ==
    [][(cmd \in {"rds", "elasticache"} /\ pc = "loop") =>
          /\ pc' \in {"loop", "render"}
          /\ Len(table') > Len(table)
          /\ (calls' # calls /\ local'.answer.error)
                => IsNotAvailableRow(table'[Len(table) + 1], OfferingTypes[local.j])
      ]_vars

\* C17: a command that has returned an error has written nothing.
C17_ErrorMeansNoOutput ==
    (pc = "done" /\ err # "") => stdout = <<>>

(***************************************************************************)
(* Output formats of the generate command                                  *)
(***************************************************************************)
\* the instance type without the prefix, when it has it
Unprefixed(type, prefix) ==
    IF \E k \in 1..(Len(type) + 1) : prefix \o SubSeq(type, k, Len(type)) = type
    THEN SubSeq(type, Len(prefix) + 1, Len(type))
    ELSE type
RdsToken(i) ==
    "--rds=" \o Unprefixed(i.InstanceType, "db.") \o ":" \o ToString(i.Count) \o ":"
        \o i.Description \o ":" \o (IF i.MultiAz THEN "true" ELSE "false")
CacheToken(i) ==
    "--elasticache=" \o Unprefixed(i.InstanceType, "cache.") \o ":" \o ToString(i.Count) \o ":"
        \o i.Description
IsRds(i) == i.ServiceType = "rds"
IsCache(i) == i.ServiceType = "elasticache"
\* the tokens of the RDS instances, then those of the ElastiCache instances,
\* a single space before every token but the first
RECURSIVE Spaced(_)
Spaced(tokens) ==
    IF Len(tokens) = 0 THEN ""
    ELSE Spaced(SubSeq(tokens, 1, Len(tokens) - 1))
            \o (IF Len(tokens) > 1 THEN " " ELSE "") \o tokens[Len(tokens)]
ExpectedArgs(instances) ==
    LET rds   == SelectSeq(instances, IsRds)
        cache == SelectSeq(instances, IsCache)
    IN  Spaced([n \in DOMAIN rds |-> RdsToken(rds[n])]
               \o [n \in DOMAIN cache |-> CacheToken(cache[n])])

TestInstances ==
    <<InstanceInfo("rds", "db.m5.large", 2, "postgresql", FALSE),
      InstanceInfo("elasticache", "cache.m5.large", 3, "redis", FALSE)>>

\* C18: formatOutput returns, for "args", the --rds tokens of the RDS
\* instances followed by the --elasticache tokens of the ElastiCache
\* instances, joined by single spaces; for "command", "awsri total ", the
\* args, " --duration=<Duration>" and " --offering-type=\"<OfferingType>\"";
\* for "json" a non-empty string; for any other format an error and the empty
\* string.  For the instances of TestFormatOutput the args are
\* --rds=m5.large:2:postgresql:false --elasticache=m5.large:3:redis.
C18_FormatOutput ==
    (cmd = "formatOutput" /\ pc = "returned") =>
        /\ opts.format = "args" =>
              /\ local.ret.kind = "ok"
              /\ local.ret.v = ExpectedArgs(opts.instances)
        /\ opts.format = "command" =>
              /\ local.ret.kind = "ok"
              /\ local.ret.v = "awsri total " \o ExpectedArgs(opts.instances)
                                  \o " --duration=" \o ToString(opts.Duration)
                                  \o " --offering-type=\"" \o opts.OfferingType \o "\""
        /\ opts.format = "json" => local.ret.kind = "ok" /\ Len(local.ret.v) > 0
        /\ opts.format \notin {"args", "command", "json"} =>
              local.ret.kind = "err" /\ local.ret.v = ""
        /\ (opts.instances = TestInstances /\ opts.format = "args") =>
              local.ret.v = "--rds=m5.large:2:postgresql:false --elasticache=m5.large:3:redis"
        /\ (opts.instances = TestInstances /\ opts.format = "command" /\ opts.Duration = 1) =>
              local.ret.v = "awsri total --rds=m5.large:2:postgresql:false --elasticache=m5.large:3:redis --duration=1 --offering-type=\"Partial Upfront\""

\* the command line of an ElastiCache instance listed before an RDS instance
C18_Witness ==
    /\ cmd = "formatOutput" /\ pc = "returned"
    /\ opts.format = "command" /\ opts.Duration = 3
    /\ opts.instances = <<InstanceInfo("elasticache", "t4g.micro", 1, "valkey", FALSE),
                          InstanceInfo("rds", "db.m5.large", 2, "postgresql", FALSE)>>
    /\ local.ret.v = "awsri total --rds=m5.large:2:postgresql:false --elasticache=t4g.micro:1:valkey --duration=3 --offering-type=\"Partial Upfront\""

(***************************************************************************)
(* Matching of the Fargate offering rates, one offering at a time          *)
(***************************************************************************)
Matching == cmd = "getComputeSavingsPlanPrice"
\* the parsed rate of the offering a price was set at
RateAt(at) == ParseFloat(opts.searchResults[at[2]].Rate).v

\* C19: in getComputeSavingsPlanPrice, once the vCPU (the memory) price is
\* set from an offering, no later offering of the same or of the second loop
\* changes it, and the price returned for each is the rate of the offering
\* that first set it; the loops together give what FargateMatchedRates
\* computes.
C19_FirstMatchWins ==
    [][Matching =>
        /\ local.acc.foundVCPU =>
              /\ local'.acc.foundVCPU
              /\ local'.acc.vcpuPrice = local.acc.vcpuPrice
              /\ local'.vcpuAt = local.vcpuAt
        /\ local.acc.foundMemory =>
              /\ local'.acc.foundMemory
              /\ local'.acc.memoryPrice = local.acc.memoryPrice
              /\ local'.memoryAt = local.memoryAt
        /\ pc' = "returned" =>
              /\ local'.ret = FargateMatchedRates(opts.searchResults, opts)
              /\ local'.ret.kind = "ok" =>
                    /\ local'.ret.v.vcpuPrice = RateAt(local'.vcpuAt)
                    /\ local'.ret.v.memoryPrice = RateAt(local'.memoryAt)]_vars

\* the vCPU price 0.03 of the first offering returned although the third
\* offering is hourly at 0.02
C19_Witness ==
    /\ Matching /\ pc = "returned" /\ local.ret.kind = "ok"
    /\ Len(opts.searchResults) = 3
    /\ opts.searchResults[3].Rate = "0.02" /\ opts.searchResults[3].Unit = "Hours"
    /\ local.vcpuAt = <<1, 1>> /\ local.memoryAt = <<1, 2>>
    /\ local.ret.v.vcpuPrice = Frac(3, 100)

\* the usage-type strings of an offering name Windows
IsWindows(offering) ==
    \/ offering.hasUsageType /\ Contains(ToLower(offering.UsageType), "windows")
    \/ \E n \in DOMAIN offering.Properties :
          /\ offering.Properties[n].Name = "usagetype"
          /\ Contains(ToLower(offering.Properties[n].Value), "windows")

\* C20: in getComputeSavingsPlanPrice, the rate of an offering whose
\* UsageType or usagetype property contains "windows" is never returned as
\* the vCPU or the memory price, whichever loop sets the price.
C20_WindowsExcluded ==
    (Matching /\ pc = "returned" /\ local.ret.kind = "ok") =>
        /\ ~IsWindows(opts.searchResults[local.vcpuAt[2]])
        /\ ~IsWindows(opts.searchResults[local.memoryAt[2]])

(***************************************************************************)
(* Offer matching: architecture, heuristic, region and duration            *)
(***************************************************************************)
\* the usage-type strings of an offering name ARM
IsARMRate(offering) ==
    \/ offering.hasUsageType /\ Contains(ToLower(offering.UsageType), "arm")
    \/ \E n \in DOMAIN offering.Properties :
          /\ offering.Properties[n].Name = "usagetype"
          /\ Contains(ToLower(offering.Properties[n].Value), "arm")
\* the offerings the returned vCPU and memory price were set at
VCPUOffering == opts.searchResults[local.vcpuAt[2]]
MemoryOffering == opts.searchResults[local.memoryAt[2]]
FargateReturned == Matching /\ pc = "returned" /\ local.ret.kind = "ok"

\* C21: in getComputeSavingsPlanPrice of the fargate command, the returned
\* vCPU price and memory price each come from an offering whose usage-type
\* string contains "arm" exactly when the architecture asked for is arm,
\* whichever loop sets the price.
C21_ArchitectureExact ==
    FargateReturned =>
        /\ IsARMRate(VCPUOffering) <=> (opts.Architecture = "arm")
        /\ IsARMRate(MemoryOffering) <=> (opts.Architecture = "arm")

\* what the usage types alone resolve: both loops without the inference
\* from the unit and the value of the rate
RECURSIVE ClassifyAll(_, _, _)
ClassifyAll(acc, searchResults, o) ==
    IF Len(searchResults) = 0 THEN acc
    ELSE ClassifyAll(ClassifyOffering(acc, searchResults[1], ToLower(searchResults[1].UsageType),
                                      ParseFloat(searchResults[1].Rate), o.Architecture = "arm", o),
                     Tail(searchResults), o)
RECURSIVE FallbackClassifyAll(_, _, _)
FallbackClassifyAll(acc, searchResults, o) ==
    IF Len(searchResults) = 0 THEN acc
    ELSE FallbackClassifyAll(FallbackClassify(acc, searchResults[1],
                                              ParseFloat(searchResults[1].Rate), o),
                             Tail(searchResults), o)
ByUsageType(searchResults, o) ==
    FallbackClassifyAll(ClassifyAll(NoneFound, searchResults, o), searchResults, o)

\* C22: in getComputeSavingsPlanPrice of the fargate command, the value of
\* the rate (above 0.01 vCPU, below memory) supplies a returned price only
\* when the usage types resolve neither price; a price the usage types
\* resolve is returned as they resolve it.
C22_HeuristicLastResort ==
    FargateReturned =>
        /\ ("rate" \in {local.vcpuBy, local.memoryBy}) =>
              /\ ~ByUsageType(opts.searchResults, opts).foundVCPU
              /\ ~ByUsageType(opts.searchResults, opts).foundMemory
        /\ ByUsageType(opts.searchResults, opts).foundVCPU =>
              local.ret.v.vcpuPrice = ByUsageType(opts.searchResults, opts).vcpuPrice
        /\ ByUsageType(opts.searchResults, opts).foundMemory =>
              local.ret.v.memoryPrice = ByUsageType(opts.searchResults, opts).memoryPrice

(***************************************************************************)
(* Unresolved offers abort the Savings Plans commands                      *)
(***************************************************************************)
\* the step in which the offering rates of a non-empty answer are matched
MatchesOffers ==
    /\ cmd \in {"ec2", "fargate"} /\ pc = "plan" /\ calls' # calls
    /\ ~local'.response.error /\ local'.response.count > 0
\* no cost has been computed and nothing written
NoFigures(l, out) ==
    /\ l.hourlyCommitment = R(0) /\ l.spPurchaseAmount = R(0)
    /\ l.spCostPerMonth = R(0) /\ l.savingsAmount = R(0) /\ l.savingsRate = R(0)
    /\ out = <<>>
Aborted(message) == pc' = "done" /\ err' = message /\ NoFigures(local', stdout')

\* C23: getComputeSavingsPlanPrice of the fargate command returns the prices
\* only with both the vCPU and the memory price found in the offering rates,
\* and otherwise the error of the missing one; that of the ec2 command
\* returns an error when no offering matched; on the error Run returns it
\* without computing or writing a figure.
C23_UnresolvedAborts ==
    [][MatchesOffers =>
        IF cmd = "fargate"
        THEN IF local'.match.foundVCPU /\ local'.match.foundMemory
             THEN pc' = "render" /\ err' = ""
             ELSE IF ~local'.match.foundVCPU
             THEN Aborted("failed to get Savings Plan price: vCPU Savings Plan price not found")
             ELSE Aborted("failed to get Savings Plan price: memory Savings Plan price not found")
        ELSE IF local'.match.found
             THEN pc' = "render" /\ err' = ""
             ELSE Aborted("failed to get Savings Plan price: Savings Plan price not found for instance type "
                          \o opts.InstanceType \o " with duration " \o ToString(opts.Duration)
                          \o " years")]_vars

\* the fargate command aborted with the vCPU price found and the memory
\* price missing
C23_Witness ==
    /\ cmd = "fargate" /\ pc = "done"
    /\ err = "failed to get Savings Plan price: memory Savings Plan price not found"
    /\ local.match.foundVCPU /\ ~local.match.foundMemory
    /\ local.response.count > 0 /\ NoFigures(local, stdout)

(***************************************************************************)
(* Offer matching: the region                                              *)
(***************************************************************************)
\* the region codes the properties of an offering carry: the values of
\* regionCode, and the codes the values of location translate to
CarriedRegions(offering) ==
    {offering.Properties[n].Value :
        n \in {m \in DOMAIN offering.Properties : offering.Properties[m].Name = "regionCode"}}
    \cup ({mapLocationToRegion(offering.Properties[n].Value) :
             n \in {m \in DOMAIN offering.Properties : offering.Properties[m].Name = "location"}}
          \ {""})
OfOtherRegion(offering) == ~(CarriedRegions(offering) \subseteq {opts.Region})
EC2Matching == cmd = "EC2.getComputeSavingsPlanPrice"

OfRequestedDuration(offering) ==
    offering.hasOffering /\ offering.DurationSeconds = opts.Duration * 365 * 24 * 3600

\* C25: every rate getComputeSavingsPlanPrice of the ec2 and of the fargate
\* command returns comes from an offering whose plan has the duration asked
\* for, in seconds (years * 365 * 24 * 3600).
C25_ExactDuration ==
    /\ FargateReturned =>
          OfRequestedDuration(VCPUOffering) /\ OfRequestedDuration(MemoryOffering)
    /\ (EC2Matching /\ pc = "returned" /\ local.ret.kind = "ok") =>
          OfRequestedDuration(opts.searchResults[local.at])

(***************************************************************************)
(* Selection of the reserved DB instance offering                          *)
(***************************************************************************)
\* offering n of the call is of the description and deployment asked for
Wanted(n) ==
    /\ opts.offerings[n].ProductDescription = opts.productDescription
    /\ opts.offerings[n].MultiAZ = opts.multiAz

\* C26: RDSCommand.getOffering returns the first offering of the list whose
\* product description and Multi-AZ flag both equal those asked for, and nil
\* (index 0) exactly when no offering has both; it never returns an offering
\* that differs in either.
C26_FirstMatchingOffering ==
    (cmd = "getOffering" /\ pc = "returned") =>
        /\ local.ret = 0 <=> (\A n \in DOMAIN opts.offerings : ~Wanted(n))
        /\ local.ret # 0 =>
              /\ local.ret \in DOMAIN opts.offerings
              /\ Wanted(local.ret)
              /\ \A n \in 1..(local.ret - 1) : ~Wanted(n)

\* the second offering returned: the first has the description asked for but
\* is Single-AZ
C26_Witness ==
    /\ cmd = "getOffering" /\ pc = "returned" /\ local.ret = 2
    /\ opts.productDescription = "postgresql" /\ opts.multiAz
    /\ opts.offerings[1].ProductDescription = "postgresql" /\ ~opts.offerings[1].MultiAZ

(***************************************************************************)
(* Cost of a reserved row of the rds command                               *)
(***************************************************************************)
\* the cells of a reserved row of a duration in years and an offering type,
\* from the upfront price U, the hourly recurring charge R and the monthly
\* on-demand baseline B, all costs taken over a year
YearlyRow(years, offeringType, U, Rc, B) ==
    LET m                == 12 * years
        recurringMonthly == FMul(Rc, R(24 * 30))
        effective        == FMul(FAdd(FDiv(U, R(m)), recurringMonthly), R(12))
        baseline         == FMul(B, R(12))
        savings          == FSub(baseline, effective)
        percent          == FDiv(FMul(R(100), savings), baseline)
    IN  <<Years(years), Text(offeringType), Fixed1(U), Fixed1(recurringMonthly),
          Fixed1(effective), Savings1(savings, percent)>>
\* the step of the rds loop that prices a row from an offering
PricesReservedRow ==
    /\ cmd = "rds" /\ pc = "loop" /\ OfferingTypes[local.j] # "On-Demand"
    /\ calls' # calls /\ ~local'.answer.error /\ pc' # "crashed"
    /\ getOffering(local'.answer.list, opts.ProductDescription, opts.MultiAz) # 0
PricedFrom(list) == list[getOffering(list, opts.ProductDescription, opts.MultiAz)]

\* C27: every reserved row RDSCommand.Run adds shows, for the upfront price
\* U, the hourly recurring charge R, the duration of m months and the monthly
\* on-demand baseline B: the monthly recurring cost R*24*30, the effective
\* cost (U/m + R*24*30)*12 of a year, and the savings B*12 less that cost
\* with their percentage of B*12, baseline and effective cost both yearly.
C27_ReservedRowCosts ==
    [][PricesReservedRow =>
        /\ Len(table') > Len(table)
        /\ table'[Len(table) + 1] =
              YearlyRow(Durations[local.i], OfferingTypes[local.j],
                        PricedFrom(local'.answer.list).FixedPrice,
                        PricedFrom(local'.answer.list).RecurringCharges[1],
                        local.onDemandPrice)]_vars

\* the 1-year No Upfront row of upfront 781 and 0.089 an hour against the
\* on-demand price 0.186 an hour: 64.08 a month, 1549.96 a year
C27_Witness ==
    /\ cmd = "rds" /\ Len(table) >= 2
    /\ local.onDemandPrice = FMul(Frac(186, 1000), R(720))
    /\ table[2] = <<Years(1), Text("No Upfront"), Fixed1(R(781)), Fixed1(Frac(6408, 100)),
                    Fixed1(Frac(154996, 100)),
                    Savings1(FSub(Frac(160704, 100), Frac(154996, 100)),
                             FDiv(FMul(R(100), FSub(Frac(160704, 100), Frac(154996, 100))),
                                  Frac(160704, 100)))>>

(***************************************************************************)
(* From the generate command to the total command and back                 *)
(***************************************************************************)
\* the instance types carry their prefixes and no field holds ":" or " "
Plain(str) == ~Contains(str, ":") /\ ~Contains(str, " ")
RoundTrippable(instances) ==
    \A n \in DOMAIN instances :
       /\ instances[n].ServiceType = "rds" => HasPrefix(instances[n].InstanceType, "db.")
       /\ instances[n].ServiceType = "elasticache" => HasPrefix(instances[n].InstanceType, "cache.")
       /\ Plain(instances[n].InstanceType) /\ Plain(instances[n].Description)

\* C28: for instances whose RDS types start with "db." and ElastiCache types
\* with "cache." and whose fields hold no ":" and no space, parseInstancesInfo
\* of the --rds and --elasticache values written by formatArgsOutput succeeds
\* and gives the same instances, the RDS instances first and otherwise in
\* the same order.
C28_GenerateTotalRoundTrip ==
    (cmd = "formatOutput" /\ pc = "back" /\ RoundTrippable(opts.instances)) =>
        /\ local.ret2.kind = "ok"
        /\ local.ret2.v = SelectSeq(opts.instances, IsRds) \o SelectSeq(opts.instances, IsCache)

\* an ElastiCache node type before a Multi-AZ RDS instance, read back with
\* the RDS instance first
C28_Witness ==
    /\ cmd = "formatOutput" /\ pc = "back"
    /\ opts.instances = <<InstanceInfo("elasticache", "cache.m5.large", 3, "redis", FALSE),
                          InstanceInfo("rds", "db.r6g.large", 1, "mysql", TRUE)>>
    /\ local.ret.v = "--rds=r6g.large:1:mysql:true --elasticache=m5.large:3:redis"
    /\ local.ret2.v = <<InstanceInfo("rds", "db.r6g.large", 1, "mysql", TRUE),
                        InstanceInfo("elasticache", "cache.m5.large", 3, "redis", FALSE)>>


(***************************************************************************)
(* The result of the total command and its grouping                        *)
(***************************************************************************)
\* the sum of a price field and of the counts over a sequence of results
RECURSIVE SumOf(_, _)
SumOf(results, field) ==
    IF Len(results) = 0 THEN R(0)
    ELSE FAdd(SumOf(SubSeq(results, 1, Len(results) - 1), field), results[Len(results)][field])
RECURSIVE CountOf(_)
CountOf(results) ==
    IF Len(results) = 0 THEN 0
    ELSE CountOf(SubSeq(results, 1, Len(results) - 1)) + results[Len(results)].Count
\* the groups as a sequence, in some order
Groups(groupedInstances) ==
    LET order == CHOOSE order \in Orders(DOMAIN groupedInstances) : TRUE
    IN  [n \in DOMAIN order |-> groupedInstances[order[n]]]
\* the price of one unit of an instance from the answer to its offering query
UnitPrice(o, instance) ==
    IF instance.ServiceType = "rds" THEN calculateRDSPrice(o, instance, opts.Duration)
    ELSE calculateElastiCachePrice(o, instance, opts.Duration)
\* the step of calculateTotalPrice that prices an instance with success
PricesInstance ==
    /\ cmd = "total" /\ pc = "offering" /\ pc' \in {"ondemand", "render"}
\* the results so far are of the instances so far, and the totals their sums
ResultOfInstances ==
    LET result == local.result
        done   == IF pc = "render" \/ (pc = "done" /\ err = "")
                  THEN Len(local.instances) ELSE local.i - 1
    IN  /\ Len(result.Instances) = done
        /\ \A n \in 1..done :
             /\ result.Instances[n].ServiceType = local.instances[n].ServiceType
             /\ result.Instances[n].InstanceType = local.instances[n].InstanceType
             /\ result.Instances[n].Count = local.instances[n].Count
        /\ result.TotalUpfront = SumOf(result.Instances, "Upfront")
        /\ result.TotalMonthly = SumOf(result.Instances, "Monthly")
        /\ result.TotalYearly = SumOf(result.Instances, "Yearly")
\* the groups of renderResult add up to what the results add up to
GroupingPreserves(results) ==
    LET groups == Groups(GroupInstances(results))
    IN  /\ SumOf(groups, "Upfront") = SumOf(results, "Upfront")
        /\ SumOf(groups, "Monthly") = SumOf(results, "Monthly")
        /\ SumOf(groups, "Yearly") = SumOf(results, "Yearly")
        /\ CountOf(groups) = CountOf(results)

\* C29: when calculateTotalPrice succeeds it holds one result per input
\* instance, each with the upfront, monthly and yearly price of one unit
\* multiplied by the count of the instance, the three totals are the sums of
\* these values over the results, and the groups renderResult makes by service
\* type and instance type keep each of the three sums and the number of
\* instances.
C29_TotalsAndGrouping ==
    /\ [](cmd = "total" /\ pc \in {"ondemand", "offering", "render", "done"}
             => ResultOfInstances /\ GroupingPreserves(local.result.Instances))
    /\ [][PricesInstance =>
            LET instance == local.instances[local.i]
                unit     == UnitPrice(local'.answer, instance).v
                priced   == local'.result.Instances[local.i]
            IN  /\ UnitPrice(local'.answer, instance).kind = "ok"
                /\ priced.Upfront = FMul(unit[1], R(instance.Count))
                /\ priced.Monthly = FMul(unit[2], R(instance.Count))
                /\ priced.Yearly = FMul(unit[3], R(instance.Count))]_vars

\* two results of one instance type and different counts, written as one group
C29_Witness ==
    /\ cmd = "total" /\ pc = "done" /\ err = ""
    /\ Len(local.result.Instances) = 2
    /\ local.result.Instances[1].Count = 2 /\ local.result.Instances[2].Count = 1
    /\ local.result.Instances[1].InstanceType = local.result.Instances[2].InstanceType
    /\ local.result.Instances[1].Upfront # R(0)
    /\ Cardinality(DOMAIN GroupInstances(local.result.Instances)) = 1


(***************************************************************************)
(* Architecture of the Fargate on-demand price                             *)
(***************************************************************************)
\* the entry is readable and its usagetype names ARM, or does not
ARMEntry(entry) == entry.valid /\ Contains(ToUpper(entry.attrs.usagetype), "ARM")
NonARMEntry(entry) == entry.valid /\ ~Contains(ToUpper(entry.attrs.usagetype), "ARM")
OfRequested(entry) ==
    IF opts.processorArchitecture = "ARM" THEN ARMEntry(entry) ELSE NonARMEntry(entry)

\* C30: getFargateOnDemandPriceByType takes the price of a non-ARM request
\* from an entry whose usagetype does not contain "ARM" whenever the result
\* holds such an entry, and the price of an ARM request from an ARM entry
\* whenever the result holds one; the first entry is fallen back on only when
\* the result holds no entry of the requested architecture.
C30_RequestedArchitecture ==
    cmd = "getFargateOnDemandPriceByType" /\ pc = "returned"
        /\ (\E n \in DOMAIN opts.priceList : OfRequested(opts.priceList[n]))
        => OfRequested(local.ret)

====
